---- MODULE Spec2Model ----
(***************************************************************************)
(* Model of the Action Builder membership synchronisation:                 *)
(*   app/services/utils.py          retry_request, run_today               *)
(*   app/api/fetch_people.py        get_person, fetch_*_from_connection    *)
(*   app/api/list_tags.py           get_tags_paginated                     *)
(*   app/api/delete_taggings.py     delete_tagging                         *)
(*   app/sync/run_status_type_sync.py  the reconciliation pipeline         *)
(*                                                                         *)
(* Python values: None is the string "None"; a compound identifier         *)
(* "a:b:c" is the sequence of its ":"-separated components, so that        *)
(* split(":")[-1] is the last component.                                   *)
(***************************************************************************)
EXTENDS Integers, Sequences, FiniteSets, TLC

VARIABLES
    \* ---- one call of process_person (SpecResolve)
    world,              \* the record and the remote answers for it
    result,             \* what process_person returned
    rpc,                \* "call" | "returned"
    \* ---- one call of delete_tag_for_person (SpecDelete)
    answers,            \* the remote's answer to each successive DELETE
    del_call,           \* outcome of the retry-wrapped delete_tagging
    del_result,         \* what delete_tag_for_person returned
    dpc,                \* "call" | "returned"
    \* ---- one run of main (Spec)
    pc,                 \* where main is
    scheduled,          \* main's argument
    today,              \* datetime.today().day
    max_workers,        \* main's argument
    batch_size,         \* main's argument
    source,             \* the people the fetcher will yield: their kinds
    person_index,       \* number of people drawn from the generator
    current_batch,      \* <<index, person>> pairs not yet submitted
    batch_index,
    futures,            \* the futures of the resolver's executor, by number
    future_to_batch_info, \* the numbers of the futures the coordinator tracks
    waited,             \* futures already yielded by the final as_completed
    active_calls,       \* indices of the records inside a process_person call
    people_unit_map,    \* the correction map, in insertion order
    processed_count,
    deletion_tasks,     \* <<person_id, tag_id, tag_type>>
    del_futures,        \* the futures of the deletion executor, by task
    del_waited,         \* deletion futures already yielded by as_completed
    successful_deletions,
    delete_log,         \* <<person_id, tag_id>> of the DELETE requests issued
    report,             \* what dict_to_csv returned
    emails,             \* the e-mails handed to send_email and delivered
    \* ---- one call of a retry_request-wrapped function (SpecRetry)
    retry_call,         \* the decorator's arguments and what each call does
    retry_result,       \* calls made, how the wrapper ended, the sleeps
    rtpc,               \* "call" | "returned"
    \* ---- one consumption of a paginated fetcher (SpecPages)
    remote_pages,       \* the remote's answer for each page number
    cur_page,           \* the generator's page counter
    yielded,            \* the items yielded so far
    requested,          \* the page numbers requested so far
    pgpc,               \* "loop" | "ended" | "raised"
    \* ---- one call of dict_to_csv (SpecCsv)
    csv_data,           \* dict_to_csv's argument, in insertion order
    csv_result,         \* what it returned
    cpc                 \* "call" | "returned"

resolve_vars == <<world, result, rpc>>
retry_vars == <<retry_call, retry_result, rtpc>>
pages_vars == <<remote_pages, cur_page, yielded, requested, pgpc>>
csv_vars == <<csv_data, csv_result, cpc>>
library_vars == <<retry_vars, pages_vars, csv_vars>>
delete_vars == <<answers, del_call, del_result, dpc>>
main_vars == <<pc, scheduled, today, max_workers, batch_size, source,
               person_index, current_batch, batch_index, futures,
               future_to_batch_info, waited, active_calls, people_unit_map,
               processed_count, deletion_tasks, del_futures, del_waited,
               successful_deletions, delete_log, report, emails>>

-----------------------------------------------------------------------------
(* Python values *)

None == "None"

Falsy(x) == x = None \/ x = ""

\* s.split(":")[-1] on the component-sequence form of a string
SplitLast(identifier) == identifier[Len(identifier)]

PeopleUnits == "People + Units"
MembershipStatus == "Membership Status"
MembershipType == "Membership Type"
UnknownUnit == "Unknown Unit"

-----------------------------------------------------------------------------
(* app/services/utils.py: retry_request *)

max_attempts == 3
backoff == 1

\* the loop returning None where line 58 re-raises
RECURSIVE retry_loop_swallowing(_, _, _, _, _)
retry_loop_swallowing(outs, attempt, max_att, base, retry_if_false) ==
    LET o == outs[attempt]
        stop(how) == [calls |-> attempt, end |-> how, sleeps |-> <<>>]
        sleep_time == base * (2 ^ (attempt - 1))
        rest == retry_loop_swallowing(outs, attempt + 1, max_att, base, retry_if_false)
        again == [rest EXCEPT !.sleeps = <<sleep_time>> \o @]
    IN  CASE o = "truthy" -> stop("return")
          [] o = "falsy" ->
                IF retry_if_false /\ attempt # max_att THEN again
                ELSE stop("return")
          [] o = "exc" -> IF attempt = max_att THEN stop("return") ELSE again
          [] OTHER -> stop("raise")

\* the loop sleeping backoff * 2 ** attempt
RECURSIVE retry_loop_doubled_sleep(_, _, _, _, _)
retry_loop_doubled_sleep(outs, attempt, max_att, base, retry_if_false) ==
    LET o == outs[attempt]
        stop(how) == [calls |-> attempt, end |-> how, sleeps |-> <<>>]
        sleep_time == base * (2 ^ attempt)
        rest == retry_loop_doubled_sleep(outs, attempt + 1, max_att, base, retry_if_false)
        again == [rest EXCEPT !.sleeps = <<sleep_time>> \o @]
    IN  CASE o = "truthy" -> stop("return")
          [] o = "falsy" ->
                IF retry_if_false /\ attempt # max_att THEN again
                ELSE stop("return")
          [] o = "exc" -> IF attempt = max_att THEN stop("raise") ELSE again
          [] OTHER -> stop("raise")

\* the loop retrying a falsy result whatever retry_if_false says
RECURSIVE retry_loop_retrying_falsy(_, _, _, _, _)
retry_loop_retrying_falsy(outs, attempt, max_att, base, retry_if_false) ==
    LET o == outs[attempt]
        stop(how) == [calls |-> attempt, end |-> how, sleeps |-> <<>>]
        sleep_time == base * (2 ^ (attempt - 1))
        rest == retry_loop_retrying_falsy(outs, attempt + 1, max_att, base, retry_if_false)
        again == [rest EXCEPT !.sleeps = <<sleep_time>> \o @]
    IN  CASE o = "truthy" -> stop("return")
          [] o = "falsy" -> IF attempt # max_att THEN again ELSE stop("return")
          [] o = "exc" -> IF attempt = max_att THEN stop("raise") ELSE again
          [] OTHER -> stop("raise")

\* the loop catching every exception type
RECURSIVE retry_loop_catching_all(_, _, _, _, _)
retry_loop_catching_all(outs, attempt, max_att, base, retry_if_false) ==
    LET o == outs[attempt]
        stop(how) == [calls |-> attempt, end |-> how, sleeps |-> <<>>]
        sleep_time == base * (2 ^ (attempt - 1))
        rest == retry_loop_catching_all(outs, attempt + 1, max_att, base, retry_if_false)
        again == [rest EXCEPT !.sleeps = <<sleep_time>> \o @]
    IN  CASE o = "truthy" -> stop("return")
          [] o = "falsy" ->
                IF retry_if_false /\ attempt # max_att THEN again
                ELSE stop("return")
          [] OTHER -> IF attempt = max_att THEN stop("raise") ELSE again

\* One pass of the for loop of retry_request's wrapper, from `attempt` on.
\* outs[k] is what the k-th call of the wrapped function does:
\*   "truthy"  returns a value that is neither False nor None
\*   "falsy"   returns False or None
\*   "exc"     raises one of the retryable exception types
\*   "other"   raises an exception of another type
RECURSIVE retry_loop(_, _, _, _, _)
retry_loop(outs, attempt, max_att, base, retry_if_false) ==
    LET o == outs[attempt]
        stop(how) == [calls |-> attempt, end |-> how, sleeps |-> <<>>]
        sleep_time == base * (2 ^ (attempt - 1))
        rest == retry_loop(outs, attempt + 1, max_att, base, retry_if_false)
        again == [rest EXCEPT !.sleeps = <<sleep_time>> \o @]
    IN  CASE o = "truthy" -> stop("return")
          [] o = "falsy" ->
                IF retry_if_false /\ attempt # max_att THEN again
                ELSE stop("return")
          [] o = "exc" -> IF attempt = max_att THEN stop("raise") ELSE again
          [] OTHER -> stop("raise")

retry_request(outs, max_att, base, retry_if_false) ==
    IF max_att < 1
    THEN [calls |-> 0, end |-> "return", sleeps |-> <<>>]
    ELSE retry_loop(outs, 1, max_att, base, retry_if_false)

-----------------------------------------------------------------------------
(* app/api/fetch_people.py *)

\* _safe_get is retry_request()-wrapped: attempts[k] is "truthy" when the
\* k-th GET answers 2xx with a JSON body, "exc" when it raises a
\* requests.RequestException (transport error or raise_for_status).
_safe_get(attempts) == retry_request(attempts, max_attempts, backoff, FALSE)

safe_get_raises(attempts) == _safe_get(attempts).end = "raise"

\* get_person: the person resource, or None when _safe_get raised
get_person(w) ==
    IF safe_get_raises(w.get_person.attempts)
    THEN [ok |-> FALSE, conn_link |-> FALSE]
    ELSE [ok |-> TRUE, conn_link |-> w.get_person.conn_link]

\* The `while url:` loop shared by fetch_connections_from_person and
\* fetch_taggings_from_connection: page i links to page i+1 while there is one.
RECURSIVE follow_pages(_, _)
follow_pages(pages, i) ==
    IF i > Len(pages) THEN <<>>
    ELSE IF safe_get_raises(pages[i].attempts) THEN <<>>
    ELSE pages[i].items \o follow_pages(pages, i + 1)

\* whether a GET of the loop failed after its retries
RECURSIVE follow_failed(_, _)
follow_failed(pages, i) ==
    IF i > Len(pages) THEN FALSE
    ELSE IF safe_get_raises(pages[i].attempts) THEN TRUE
    ELSE follow_failed(pages, i + 1)

fetch_connections_from_person(person_data, w) ==
    IF ~person_data.conn_link THEN <<>>
    ELSE follow_pages(w.conn_pages, 1)

NoUnit == [found |-> FALSE, has_name |-> FALSE, name |-> None, conn |-> 0, failed |-> FALSE]

\* index `conn` of the connection the unit was read from (0: none)
RECURSIVE fetch_unit_from(_, _)
fetch_unit_from(connections, i) ==
    IF i > Len(connections) THEN NoUnit
    ELSE LET conn == connections[i]
         IN  IF conn.connection_type = PeopleUnits /\ ~conn.inactive /\ conn.unit_link
             THEN IF safe_get_raises(conn.unit_attempts)
                  THEN [NoUnit EXCEPT !.conn = i, !.failed = TRUE]
                  ELSE [found |-> TRUE, has_name |-> conn.unit_has_name,
                        name |-> conn.unit_name, conn |-> i, failed |-> FALSE]
             ELSE fetch_unit_from(connections, i + 1)

fetch_unit_from_connection(connections) == fetch_unit_from(connections, 1)

\* the loop taking the first connection with a taggings link, of any type
RECURSIVE fetch_taggings_from_any_type(_, _)
fetch_taggings_from_any_type(connections, i) ==
    IF i > Len(connections)
    THEN [found |-> FALSE, taggings |-> <<>>, conn |-> 0, failed |-> FALSE]
    ELSE LET conn == connections[i]
         IN  IF ~conn.tag_link
             THEN fetch_taggings_from_any_type(connections, i + 1)
             ELSE [found |-> TRUE, taggings |-> follow_pages(conn.tag_pages, 1),
                   conn |-> i, failed |-> follow_failed(conn.tag_pages, 1)]

\* index `conn` of the connection the taggings were read from (0: none, and
\* the function returns None)
RECURSIVE fetch_taggings_from(_, _)
fetch_taggings_from(connections, i) ==
    IF i > Len(connections)
    THEN [found |-> FALSE, taggings |-> <<>>, conn |-> 0, failed |-> FALSE]
    ELSE LET conn == connections[i]
         IN  IF conn.connection_type # PeopleUnits \/ ~conn.tag_link
             THEN fetch_taggings_from(connections, i + 1)
             ELSE [found |-> TRUE, taggings |-> follow_pages(conn.tag_pages, 1),
                   conn |-> i, failed |-> follow_failed(conn.tag_pages, 1)]

fetch_taggings_from_connection(connections) == fetch_taggings_from(connections, 1)

-----------------------------------------------------------------------------
(* app/api/list_tags.py *)

EmptyPage == [attempts |-> <<"truthy", "truthy", "truthy">>, items |-> <<>>,
              has_total |-> FALSE, total_pages |-> 0]

\* the remote's answer to a request for page p
PageAt(pages, p) == IF p <= Len(pages) THEN pages[p] ELSE EmptyPage

\* get_tags_paginated, from page `page` on: the items it yields
RECURSIVE get_tags_paginated(_, _)
get_tags_paginated(pages, page) ==
    LET data == PageAt(pages, page)
    IN  IF retry_request(data.attempts, max_attempts, backoff, FALSE).end = "raise"
        THEN <<>>
        ELSE IF data.items = <<>> THEN <<>>
        ELSE IF ~data.has_total \/ page >= data.total_pages THEN data.items
        ELSE data.items \o get_tags_paginated(pages, page + 1)

\* whether a page fetch of get_tags_paginated failed after its retries
RECURSIVE tags_fetch_failed(_, _)
tags_fetch_failed(pages, page) ==
    LET data == PageAt(pages, page)
    IN  IF retry_request(data.attempts, max_attempts, backoff, FALSE).end = "raise"
        THEN TRUE
        ELSE IF data.items = <<>> THEN FALSE
        ELSE IF ~data.has_total \/ page >= data.total_pages THEN FALSE
        ELSE tags_fetch_failed(pages, page + 1)

get_all_tags(pages) == get_tags_paginated(pages, 1)

-----------------------------------------------------------------------------
(* app/sync/run_status_type_sync.py: the record resolver *)

\* tag_id = tagging["identifiers"][0].split(":")[-1], None without identifiers
tag_id_of(tagging) ==
    IF tagging.identifiers # <<>> THEN SplitLast(tagging.identifiers[1]) ELSE None

RECURSIVE get_person_current_tags(_)
get_person_current_tags(taggings) ==
    IF taggings = <<>>
    THEN [has_status |-> FALSE, status |-> [tag_id |-> None, tag_name |-> None],
          has_type |-> FALSE, type |-> [tag_id |-> None, tag_name |-> None]]
    ELSE LET n == Len(taggings)
             acc == get_person_current_tags(SubSeq(taggings, 1, n - 1))
             tagging == taggings[n]
             entry == [tag_id |-> tag_id_of(tagging),
                       tag_name |-> IF Falsy(tagging.name) THEN "" ELSE tagging.name]
         IN  CASE tagging.field = MembershipStatus ->
                    [acc EXCEPT !.has_status = TRUE, !.status = entry]
               [] tagging.field = MembershipType ->
                    [acc EXCEPT !.has_type = TRUE, !.type = entry]
               [] OTHER -> acc

\* the scan keeping the first tagging of each field
RECURSIVE extract_connection_membership_info_first_wins(_)
extract_connection_membership_info_first_wins(taggings) ==
    IF taggings = <<>>
    THEN [status_value |-> None, status_id |-> None,
          type_value |-> None, type_id |-> None]
    ELSE LET rest == extract_connection_membership_info_first_wins(Tail(taggings))
             tagging == Head(taggings)
         IN  CASE tagging.field = MembershipStatus ->
                    [rest EXCEPT !.status_value = tagging.name,
                                 !.status_id = tag_id_of(tagging)]
               [] tagging.field = MembershipType ->
                    [rest EXCEPT !.type_value = tagging.name,
                                 !.type_id = tag_id_of(tagging)]
               [] OTHER -> rest

RECURSIVE extract_connection_membership_info(_)
extract_connection_membership_info(taggings) ==
    IF taggings = <<>>
    THEN [status_value |-> None, status_id |-> None,
          type_value |-> None, type_id |-> None]
    ELSE LET n == Len(taggings)
             acc == extract_connection_membership_info(SubSeq(taggings, 1, n - 1))
             tagging == taggings[n]
         IN  CASE tagging.field = MembershipStatus ->
                    [acc EXCEPT !.status_value = tagging.name,
                                !.status_id = tag_id_of(tagging)]
               [] tagging.field = MembershipType ->
                    [acc EXCEPT !.type_value = tagging.name,
                                !.type_id = tag_id_of(tagging)]
               [] OTHER -> acc

\* which of the two log branches of lines 198-205 the unit-side values take
membership_log(m) ==
    IF m.type_value = "Non-Member" /\ m.status_id = None THEN "non_member"
    ELSE IF Falsy(m.status_id) \/ Falsy(m.type_id) THEN "missing"
    ELSE "none"

NoInfo == [uuid |-> None, unit_name |-> None,
           membership_status_tag_id |-> None, membership_type_tag_id |-> None,
           membership_status |-> None, membership_type |-> None,
           inactive |-> FALSE]

ReturnNone == [kind |-> "None", info |-> NoInfo]
Raises == [kind |-> "raise", info |-> NoInfo]

\* current_tags.get("status", {}).get("tag_name") and the three like it
current_status_of(current_tags) ==
    IF current_tags.has_status THEN current_tags.status.tag_name ELSE None
current_type_of(current_tags) ==
    IF current_tags.has_type THEN current_tags.type.tag_name ELSE None
current_status_id_of(current_tags) ==
    IF current_tags.has_status THEN current_tags.status.tag_id ELSE None
current_type_id_of(current_tags) ==
    IF current_tags.has_type THEN current_tags.type.tag_id ELSE None

\* the test of line 222 with `and` for `or`
membership_differs_and(status_value, type_value, current_status, current_type) ==
    status_value # current_status /\ type_value # current_type

\* line 222: the discrepancy test
membership_differs(status_value, type_value, current_status, current_type) ==
    status_value # current_status \/ type_value # current_type

\* lines 176-232 with the flag of line 230 taken from the record's own status
resolve_person_flag_from_own_status(person_uuid, w) ==
    LET person_data == get_person(w)
        connections == fetch_connections_from_person(person_data, w)
        unit_data == fetch_unit_from_connection(connections)
        unit_name == IF unit_data.found
                     THEN (IF unit_data.has_name THEN unit_data.name ELSE UnknownUnit)
                     ELSE UnknownUnit
        taggings == fetch_taggings_from_connection(connections)
        m == extract_connection_membership_info(taggings.taggings)
        current_tags == get_person_current_tags(get_all_tags(w.own_pages))
        current_status == current_status_of(current_tags)
        current_type == current_type_of(current_tags)
    IN  IF ~person_data.ok THEN ReturnNone
        ELSE IF connections = <<>> THEN ReturnNone
        ELSE IF ~taggings.found THEN ReturnNone     \* iterating None: TypeError, caught
        ELSE IF membership_differs(m.status_value, m.type_value,
                                   current_status, current_type)
        THEN [kind |-> "info",
              info |-> [uuid |-> person_uuid,
                        unit_name |-> unit_name,
                        membership_status_tag_id |-> current_status_id_of(current_tags),
                        membership_type_tag_id |-> current_type_id_of(current_tags),
                        membership_status |-> IF Falsy(m.status_value) THEN ""
                                              ELSE m.status_value,
                        membership_type |-> IF Falsy(m.type_value) THEN ""
                                            ELSE m.type_value,
                        inactive |-> current_status # "Active"]]
        ELSE ReturnNone

\* lines 176-232 with the tag ids of lines 226-227 taken from the unit-side
\* connection's taggings (status_id, type_id)
resolve_person_storing_unit_ids(person_uuid, w) ==
    LET person_data == get_person(w)
        connections == fetch_connections_from_person(person_data, w)
        unit_data == fetch_unit_from_connection(connections)
        unit_name == IF unit_data.found
                     THEN (IF unit_data.has_name THEN unit_data.name ELSE UnknownUnit)
                     ELSE UnknownUnit
        taggings == fetch_taggings_from_connection(connections)
        m == extract_connection_membership_info(taggings.taggings)
        current_tags == get_person_current_tags(get_all_tags(w.own_pages))
        current_status == current_status_of(current_tags)
        current_type == current_type_of(current_tags)
    IN  IF ~person_data.ok THEN ReturnNone
        ELSE IF connections = <<>> THEN ReturnNone
        ELSE IF ~taggings.found THEN ReturnNone
        ELSE IF membership_differs(m.status_value, m.type_value,
                                   current_status, current_type)
        THEN [kind |-> "info",
              info |-> [uuid |-> person_uuid,
                        unit_name |-> unit_name,
                        membership_status_tag_id |-> m.status_id,
                        membership_type_tag_id |-> m.type_id,
                        membership_status |-> IF Falsy(m.status_value) THEN ""
                                              ELSE m.status_value,
                        membership_type |-> IF Falsy(m.type_value) THEN ""
                                            ELSE m.type_value,
                        inactive |-> m.status_value # "Active"]]
        ELSE ReturnNone

\* the warning branch of line 202 returning None
resolve_person_skipping_missing_ids(person_uuid, w) ==
    LET person_data == get_person(w)
        connections == fetch_connections_from_person(person_data, w)
        unit_data == fetch_unit_from_connection(connections)
        unit_name == IF unit_data.found
                     THEN (IF unit_data.has_name THEN unit_data.name ELSE UnknownUnit)
                     ELSE UnknownUnit
        taggings == fetch_taggings_from_connection(connections)
        m == extract_connection_membership_info(taggings.taggings)
        current_tags == get_person_current_tags(get_all_tags(w.own_pages))
        current_status == current_status_of(current_tags)
        current_type == current_type_of(current_tags)
    IN  IF ~person_data.ok THEN ReturnNone
        ELSE IF connections = <<>> THEN ReturnNone
        ELSE IF ~taggings.found THEN ReturnNone     \* iterating None: TypeError, caught
        ELSE IF membership_log(m) = "missing" THEN ReturnNone
        ELSE IF membership_differs(m.status_value, m.type_value,
                                   current_status, current_type)
        THEN [kind |-> "info",
              info |-> [uuid |-> person_uuid,
                        unit_name |-> unit_name,
                        membership_status_tag_id |-> current_status_id_of(current_tags),
                        membership_type_tag_id |-> current_type_id_of(current_tags),
                        membership_status |-> IF Falsy(m.status_value) THEN ""
                                              ELSE m.status_value,
                        membership_type |-> IF Falsy(m.type_value) THEN ""
                                            ELSE m.type_value,
                        inactive |-> m.status_value # "Active"]]
        ELSE ReturnNone

\* lines 176-232, once the record's bare id is known
resolve_person(person_uuid, w) ==
    LET person_data == get_person(w)
        connections == fetch_connections_from_person(person_data, w)
        unit_data == fetch_unit_from_connection(connections)
        unit_name == IF unit_data.found
                     THEN (IF unit_data.has_name THEN unit_data.name ELSE UnknownUnit)
                     ELSE UnknownUnit
        taggings == fetch_taggings_from_connection(connections)
        m == extract_connection_membership_info(taggings.taggings)
        current_tags == get_person_current_tags(get_all_tags(w.own_pages))
        current_status == current_status_of(current_tags)
        current_type == current_type_of(current_tags)
    IN  IF ~person_data.ok THEN ReturnNone
        ELSE IF connections = <<>> THEN ReturnNone
        ELSE IF ~taggings.found THEN ReturnNone     \* iterating None: TypeError, caught
        ELSE IF membership_differs(m.status_value, m.type_value,
                                   current_status, current_type)
        THEN [kind |-> "info",
              info |-> [uuid |-> person_uuid,
                        unit_name |-> unit_name,
                        membership_status_tag_id |-> current_status_id_of(current_tags),
                        membership_type_tag_id |-> current_type_id_of(current_tags),
                        membership_status |-> IF Falsy(m.status_value) THEN ""
                                              ELSE m.status_value,
                        membership_type |-> IF Falsy(m.type_value) THEN ""
                                            ELSE m.type_value,
                        inactive |-> m.status_value # "Active"]]
        ELSE ReturnNone

\* process_person(person): None, a PersonUnitInfo, or an exception that
\* escapes (the except handler itself calls person.get)
process_person(w) ==
    LET person == w.person
    IN  IF ~person.is_dict THEN Raises
        ELSE IF ~person.has_identifiers THEN ReturnNone
        ELSE IF person.identifiers = <<>> THEN ReturnNone      \* IndexError, caught
        ELSE IF person.identifiers[1] = <<"">> THEN ReturnNone
        ELSE resolve_person(SplitLast(person.identifiers[1]), w)

-----------------------------------------------------------------------------
(* app/api/delete_taggings.py and delete_tag_for_person *)

TransportError == [raised |-> TRUE, status_code |-> 0]
Response(code) == [raised |-> FALSE, status_code |-> code]

\* Response.raise_for_status(): HTTPError for 4xx and 5xx
raise_for_status_raises(r) == 400 <= r.status_code /\ r.status_code < 600

\* one call of the body of delete_tagging, given the remote's answer
delete_outcome(a) ==
    IF a.raised THEN "exc"                              \* requests.delete raised
    ELSE IF a.status_code \in {200, 204} THEN "truthy"  \* return True
    ELSE IF a.status_code = 404 THEN "falsy"            \* return False
    ELSE IF raise_for_status_raises(a) THEN "exc"
    ELSE "falsy"                                        \* falls off the end: None

delete_value(a) ==
    IF a.status_code \in {200, 204} THEN "True"
    ELSE IF a.status_code = 404 THEN "False"
    ELSE None

\* delete_tagging wrapped by @retry_request(retry_if_false=True)
delete_tagging_retrying_false(ans) ==
    LET r == retry_request([k \in DOMAIN ans |-> delete_outcome(ans[k])],
                           max_attempts, backoff, TRUE)
    IN  [calls |-> r.calls, end |-> r.end, sleeps |-> r.sleeps,
         value |-> IF r.end = "raise" THEN None ELSE delete_value(ans[r.calls])]

\* delete_tagging is wrapped by @retry_request() with its defaults
delete_tagging(ans) ==
    LET r == retry_request([k \in DOMAIN ans |-> delete_outcome(ans[k])],
                           max_attempts, backoff, FALSE)
    IN  [calls |-> r.calls, end |-> r.end, sleeps |-> r.sleeps,
         value |-> IF r.end = "raise" THEN None ELSE delete_value(ans[r.calls])]

\* a delete_tag_for_person that hands on what delete_tagging returned
delete_tag_for_person_returning_result(ans) ==
    LET r == delete_tagging(ans) IN r.end # "raise" /\ r.value = "True"

\* delete_tag_for_person: True unless delete_tagging raised
delete_tag_for_person(ans) ==
    LET r == delete_tagging(ans) IN r.end # "raise"

-----------------------------------------------------------------------------
(* Inputs of the resolver: records and remote answers *)

OK3 == <<"truthy", "truthy", "truthy">>
ERR3 == <<"exc", "exc", "exc">>
LATE_OK == <<"exc", "exc", "truthy">>

Tag(field, name, id) ==
    [field |-> field, name |-> name,
     identifiers |-> IF id = None THEN <<>> ELSE << <<"action_builder", id>> >>]

UnitStatusNames == {None, "", "Active", "Inactive"}
UnitTypeNames == {None, "Full", "Non-Member"}
OwnStatusNames == {None, "Active", "Inactive"}
OwnTypeNames == {"Full", "Non-Member"}

OneTag(field, names, id) ==
    {<<>>} \cup {<<Tag(field, n, i)>> : n \in names, i \in {None, id}}

UnitTagLists ==
    {s \o t : s \in OneTag(MembershipStatus, UnitStatusNames, "us"),
              t \in OneTag(MembershipType, UnitTypeNames, "ut")}

OwnTagLists(k) ==
    {s \o t : s \in OneTag(MembershipStatus, OwnStatusNames, <<"s1", "s2", "s3", "s4", "s5">>[k]),
              t \in OneTag(MembershipType, OwnTypeNames, <<"t1", "t2", "t3", "t4", "t5">>[k])}

PersonIds == <<"p1", "p2", "p3", "p4", "p5">>

GoodPerson(k) ==
    [is_dict |-> TRUE, has_identifiers |-> TRUE,
     identifiers |-> << <<"action_builder", PersonIds[k]>> >>]

BadPersons ==
    {[is_dict |-> FALSE, has_identifiers |-> FALSE, identifiers |-> <<>>],
     [is_dict |-> TRUE, has_identifiers |-> FALSE, identifiers |-> <<>>],
     [is_dict |-> TRUE, has_identifiers |-> TRUE, identifiers |-> <<>>],
     [is_dict |-> TRUE, has_identifiers |-> TRUE, identifiers |-> << <<"">> >>]}

TagPage(att, items) == [attempts |-> att, items |-> items]
OwnPage(att, items, total) ==
    [attempts |-> att, items |-> items, has_total |-> TRUE, total_pages |-> total]

BaseConn(ut) ==
    [connection_type |-> PeopleUnits, inactive |-> FALSE,
     unit_link |-> TRUE, unit_attempts |-> OK3,
     unit_has_name |-> TRUE, unit_name |-> "Unit A",
     tag_link |-> TRUE, tag_pages |-> <<TagPage(OK3, ut)>>]

OtherConn ==
    [BaseConn(<<Tag(MembershipStatus, "Active", "os")>>)
        EXCEPT !.connection_type = "Other", !.unit_name = "Unit B"]

BaseWorld(k, ut, ot) ==
    [person |-> GoodPerson(k),
     get_person |-> [attempts |-> OK3, conn_link |-> TRUE],
     conn_pages |-> <<TagPage(OK3, <<BaseConn(ut)>>)>>,
     own_pages |-> <<OwnPage(OK3, ot, 1)>>]

WithConns(k, conns, ot) ==
    [BaseWorld(k, <<>>, ot) EXCEPT !.conn_pages = <<TagPage(OK3, conns)>>]

Shapes ==
    {"normal", "person_retry", "person_fail", "no_conn_link", "conn_fail",
     "conn_page2_fail", "no_pu", "pu_second", "unit_fail", "unit_unnamed",
     "inactive_conn", "two_pu", "tags_fail", "tags_page2_fail", "no_tag_link",
     "own_fail", "own_page2_fail"}

\* the remote answers of shape `shape` around the unit-side taggings ut and
\* the record's own taggings ot
ShapedWorld(shape, k, ut, ot) ==
    LET b == BaseWorld(k, ut, ot)
        c == BaseConn(ut)
    IN  CASE shape = "normal" -> b
          [] shape = "person_retry" -> [b EXCEPT !.get_person.attempts = LATE_OK]
          [] shape = "person_fail" -> [b EXCEPT !.get_person.attempts = ERR3]
          [] shape = "no_conn_link" -> [b EXCEPT !.get_person.conn_link = FALSE]
          [] shape = "conn_fail" -> [b EXCEPT !.conn_pages[1].attempts = ERR3]
          [] shape = "conn_page2_fail" ->
                [b EXCEPT !.conn_pages = @ \o <<TagPage(ERR3, <<>>)>>]
          [] shape = "no_pu" -> WithConns(k, <<OtherConn>>, ot)
          [] shape = "pu_second" -> WithConns(k, <<OtherConn, c>>, ot)
          [] shape = "unit_fail" ->
                WithConns(k, <<[c EXCEPT !.unit_attempts = ERR3]>>, ot)
          [] shape = "unit_unnamed" ->
                WithConns(k, <<[c EXCEPT !.unit_has_name = FALSE]>>, ot)
          [] shape = "inactive_conn" ->
                WithConns(k, <<[c EXCEPT !.inactive = TRUE]>>, ot)
          [] shape = "two_pu" ->
                WithConns(k, <<[c EXCEPT !.inactive = TRUE],
                               [BaseConn(<<Tag(MembershipStatus, "Active", "us2")>>)
                                   EXCEPT !.unit_name = "Unit B"]>>, ot)
          [] shape = "tags_fail" ->
                WithConns(k, <<[c EXCEPT !.tag_pages = <<TagPage(ERR3, ut)>>]>>, ot)
          [] shape = "tags_page2_fail" ->
                WithConns(k, <<[c EXCEPT !.tag_pages = @ \o <<TagPage(ERR3, <<>>)>>]>>, ot)
          [] shape = "no_tag_link" ->
                WithConns(k, <<[c EXCEPT !.tag_link = FALSE]>>, ot)
          [] shape = "own_fail" -> [b EXCEPT !.own_pages[1].attempts = ERR3]
          [] shape = "own_page2_fail" ->
                [b EXCEPT !.own_pages = <<OwnPage(OK3, ot, 2), OwnPage(ERR3, <<>>, 2)>>]

\* a tagging of a field the resolver does not look at
OtherField == "Campaign Role"

\* longest list of taggings with repeated fields
MaxTaggings == 3

\* lists in which a field may occur several times, among other fields
RepeatedTagLists(tags) ==
    UNION {[1..n -> tags] : n \in 2..MaxTaggings}

RepeatedUnitTags ==
    {Tag(MembershipStatus, "Active", "us"), Tag(MembershipStatus, "Inactive", "us2"),
     Tag(MembershipType, "Full", "ut"), Tag(MembershipType, "Non-Member", None),
     Tag(OtherField, "Steward", "ur")}

RepeatedOwnTags ==
    {Tag(MembershipStatus, "Active", "s1"), Tag(MembershipStatus, "Inactive", "s6"),
     Tag(MembershipType, "Full", "t1"), Tag(MembershipType, None, "t6"),
     Tag(OtherField, "Inactive", "r1")}

ResolveWorlds ==
    {ShapedWorld(shape, 1, ut, ot) :
        shape \in Shapes, ut \in UnitTagLists, ot \in OwnTagLists(1)}
    \cup {[BaseWorld(1, <<>>, <<>>) EXCEPT !.person = p] : p \in BadPersons}

\* the other side's taggings while one side's lists are enumerated
UnitTagSamples ==
    {<<Tag(MembershipStatus, "Active", "us"), Tag(MembershipStatus, "Inactive", "us2"),
       Tag(OtherField, "Steward", "ur")>>,
     <<Tag(MembershipStatus, "Active", "us"), Tag(MembershipType, "Full", "ut")>>}

OwnTagSamples ==
    {<<Tag(MembershipStatus, "Inactive", "s6"), Tag(MembershipStatus, "Active", "s1"),
       Tag(OtherField, "Inactive", "r1")>>,
     <<Tag(MembershipType, "Full", "t1")>>}

\* every read succeeding, around connection taggings with repeated fields
RepeatedUnitWorlds ==
    {BaseWorld(1, ut, ot) :
        ut \in RepeatedTagLists(RepeatedUnitTags), ot \in OwnTagSamples}

\* every read succeeding, around person taggings with repeated fields
RepeatedOwnWorlds ==
    {BaseWorld(1, ut, ot) :
        ut \in UnitTagSamples, ot \in RepeatedTagLists(RepeatedOwnTags)}

DeleteAnswers ==
    {TransportError} \cup
    {Response(code) : code \in {200, 204, 202, 404, 401, 500}}

-----------------------------------------------------------------------------
(* SpecResolve: one call of process_person on any record of ResolveWorlds *)

DeleteIdle ==
    /\ answers = <<>>
    /\ del_call = [calls |-> 0, end |-> "return", sleeps |-> <<>>, value |-> None]
    /\ del_result = FALSE
    /\ dpc = "idle"

NoReport == [content |-> <<>>, row_count |-> 0]

MainIdle ==
    /\ pc = "idle"
    /\ scheduled = FALSE /\ today = 1
    /\ max_workers = 1 /\ batch_size = 1
    /\ source = <<>>
    /\ person_index = 0 /\ current_batch = <<>> /\ batch_index = 0
    /\ futures = <<>> /\ future_to_batch_info = <<>> /\ waited = {}
    /\ active_calls = {}
    /\ people_unit_map = <<>> /\ processed_count = 0
    /\ deletion_tasks = <<>> /\ del_futures = <<>> /\ del_waited = {}
    /\ successful_deletions = 0 /\ delete_log = {}
    /\ report = NoReport /\ emails = <<>>

ResolveIdle ==
    /\ world = BaseWorld(1, <<>>, <<>>)
    /\ result = ReturnNone
    /\ rpc = "idle"

NoCall == [outs |-> <<>>, max_attempts |-> max_attempts, backoff |-> backoff,
           retry_if_false |-> FALSE, decorator |-> "retry_request"]

NotCalled == [calls |-> 0, end |-> "return", sleeps |-> <<>>]

RetryIdle ==
    /\ retry_call = NoCall
    /\ retry_result = NotCalled
    /\ rtpc = "idle"

PagesIdle ==
    /\ remote_pages = <<>>
    /\ cur_page = 1
    /\ yielded = <<>>
    /\ requested = <<>>
    /\ pgpc = "idle"

CsvIdle ==
    /\ csv_data = <<>>
    /\ csv_result = NoReport
    /\ cpc = "idle"

LibraryIdle == RetryIdle /\ PagesIdle /\ CsvIdle

InitResolve ==
    /\ \/ world \in ResolveWorlds
       \/ world \in RepeatedUnitWorlds
       \/ world \in RepeatedOwnWorlds
    /\ result = ReturnNone
    /\ rpc = "call"
    /\ DeleteIdle
    /\ MainIdle
    /\ LibraryIdle

ProcessPerson ==
    /\ rpc = "call"
    /\ result' = process_person(world)
    /\ rpc' = "returned"
    /\ UNCHANGED <<world, delete_vars, main_vars, library_vars>>

NextResolve == ProcessPerson

vars == <<resolve_vars, delete_vars, main_vars, library_vars>>

SpecResolve == InitResolve /\ [][NextResolve]_vars

-----------------------------------------------------------------------------
(* SpecDelete: one call of delete_tag_for_person against any remote answers *)

InitDelete ==
    /\ answers \in [1..max_attempts -> DeleteAnswers]
    /\ del_call = [calls |-> 0, end |-> "return", sleeps |-> <<>>, value |-> None]
    /\ del_result = FALSE
    /\ dpc = "call"
    /\ ResolveIdle
    /\ MainIdle
    /\ LibraryIdle

DeleteTagForPerson ==
    /\ dpc = "call"
    /\ del_call' = delete_tagging(answers)
    /\ del_result' = delete_tag_for_person(answers)
    /\ dpc' = "returned"
    /\ UNCHANGED <<answers, resolve_vars, main_vars, library_vars>>

NextDelete == DeleteTagForPerson

SpecDelete == InitDelete /\ [][NextDelete]_vars

-----------------------------------------------------------------------------
(* app/sync/run_status_type_sync.py: the pipeline *)

MaxPeople == 3

\* the values main is called with, and the days it is called on
WorkerCounts == {1, 2}
BatchSizes == {1, 2}
Days == {1, 2}

\* utils.run_today(today): datetime.today().day == today
run_today(day, current_day) == current_day = day

\* retry_email()'s default max_attempts
email_max_attempts == 3

\* retry_email's wrapper: the retry_request loop without the falsy mode
retry_email(outs) ==
    LET r == retry_loop(outs, 1, email_max_attempts, 1, FALSE)
    IN  [calls |-> r.calls, end |-> r.end]

\* how many times retry_email's wrapper sleeps (the delays are jittered)
retry_email_sleeps(outs) ==
    Len(retry_loop(outs, 1, email_max_attempts, 1, FALSE).sleeps)

\* what the successive calls of send_email's body do: it returns None once
\* the message is handed over, raises an SMTP/OS error (retried) or raises
\* ValueError without SMTP credentials (not retried)
SmtpScripts ==
    {<<"falsy", "falsy", "falsy">>, <<"exc", "falsy", "falsy">>,
     <<"exc", "exc", "exc">>, <<"other", "falsy", "falsy">>}

\* the remote's answers to the DELETE requests of one deletion task
DeleteScripts ==
    {<<Response(204), Response(204), Response(204)>>,
     <<Response(404), Response(404), Response(404)>>,
     <<TransportError, Response(500), Response(200)>>,
     <<Response(500), TransportError, Response(500)>>}

ActiveFull == <<Tag(MembershipStatus, "Active", "us"), Tag(MembershipType, "Full", "ut")>>
InactiveFull == <<Tag(MembershipStatus, "Inactive", "us"), Tag(MembershipType, "Full", "ut")>>
OwnTags(k, status, type) ==
    <<Tag(MembershipStatus, status, <<"s1", "s2", "s3", "s4", "s5">>[k]),
      Tag(MembershipType, type, <<"t1", "t2", "t3", "t4", "t5">>[k])>>

StreamKinds == {"agree", "active", "inactive", "untagged", "malformed"}

\* the k-th person of the stream and the remote's answers about them
KindWorld(kind, k) ==
    CASE kind = "agree" -> BaseWorld(k, ActiveFull, OwnTags(k, "Active", "Full"))
      [] kind = "active" ->
            BaseWorld(k, ActiveFull, OwnTags(k, "Inactive", "Non-Member"))
      [] kind = "inactive" ->
            BaseWorld(k, InactiveFull, <<OwnTags(k, "Active", "Full")[1]>>)
      [] kind = "untagged" -> BaseWorld(k, ActiveFull, <<>>)
      [] OTHER ->
            [BaseWorld(k, <<>>, <<>>) EXCEPT
                !.person = [is_dict |-> FALSE, has_identifiers |-> FALSE,
                            identifiers |-> <<>>]]

\* the item the people generator yields at position i (1-based)
PersonAt(src, i) == KindWorld(src[i], i).person

\* the remote as process_person sees it when given `person`
WorldOf(src, person) ==
    LET at == {i \in 1..Len(src) : PersonAt(src, i) = person}
    IN  KindWorld(src[CHOOSE i \in at : TRUE], CHOOSE i \in at : TRUE)

\* ---- dictionaries in insertion order

DictHas(map, key) == \E i \in 1..Len(map) : map[i].uuid = key

\* the map keyed by the unit's name
DictSet_by_unit_name(map, info) ==
    IF \E i \in 1..Len(map) : map[i].unit_name = info.unit_name
    THEN [i \in 1..Len(map) |-> IF map[i].unit_name = info.unit_name THEN info ELSE map[i]]
    ELSE Append(map, info)

\* people_unit_map[person_info.uuid] = person_info
DictSet(map, info) ==
    IF DictHas(map, info.uuid)
    THEN [i \in 1..Len(map) |-> IF map[i].uuid = info.uuid THEN info ELSE map[i]]
    ELSE Append(map, info)

\* ---- the executor

NewFuture(batch) == [batch |-> batch, state |-> "pending", pos |-> 0, results |-> <<>>]

future_done(fut) == fut.state \in {"done", "raised"}

running_count(futs) ==
    Cardinality({f \in 1..Len(futs) : futs[f].state = "running"})

\* a pool that starts a thread for every queued item
worker_may_start_unbounded(futs, f, workers) ==
    /\ futs[f].state = "pending"
    /\ \A g \in 1..(f - 1) : futs[g].state # "pending"

\* ThreadPoolExecutor(max_workers): a free worker takes the oldest queued item
worker_may_start(futs, f, workers) ==
    /\ futs[f].state = "pending"
    /\ \A g \in 1..(f - 1) : futs[g].state # "pending"
    /\ running_count(futs) < workers

\* a deletion pool that takes no new task once a deletion returned False
deletion_may_run_until_failure(futs, t, workers) ==
    /\ futs[t].state = "pending"
    /\ Cardinality({g \in 1..(t - 1) : futs[g].state = "pending"}) < workers
    /\ \A g \in 1..Len(futs) : futs[g].state = "done" => futs[g].result

\* the deletion executor: task t is unfinished and fewer than `workers`
\* unfinished tasks were submitted before it
deletion_may_run(futs, t, workers) ==
    /\ futs[t].state = "pending"
    /\ Cardinality({g \in 1..(t - 1) : futs[g].state = "pending"}) < workers

\* process_people_batch, one turn of its loop: the call of process_person on
\* the next record returns (or raises, and the batch with it)
process_people_batch_step(fut, src) ==
    LET next == fut.batch[fut.pos + 1]
        person_info == process_person(WorldOf(src, next[2]))
    IN  IF person_info.kind = "raise"
        THEN [fut EXCEPT !.state = "raised"]
        ELSE [fut EXCEPT !.results = Append(@, <<next[1], person_info>>),
                         !.pos = @ + 1,
                         !.state = IF fut.pos + 1 = Len(fut.batch) THEN "done"
                                   ELSE "running"]

\* the fold counting a result only when it is a PersonUnitInfo
RECURSIVE collect_results_counting_infos(_, _)
collect_results_counting_infos(acc, batch_results) ==
    IF batch_results = <<>> THEN acc
    ELSE LET person_info == batch_results[1][2]
             found == person_info.kind = "info"
         IN  collect_results_counting_infos(
                 [map |-> IF found THEN DictSet(acc.map, person_info.info)
                          ELSE acc.map,
                  count |-> IF found THEN acc.count + 1 ELSE acc.count],
                 SubSeq(batch_results, 2, Len(batch_results)))

\* lines 321-335 and 348-362: fold the results of one completed future
RECURSIVE collect_results(_, _)
collect_results(acc, batch_results) ==
    IF batch_results = <<>> THEN acc
    ELSE LET person_info == batch_results[1][2]
             map1 == IF person_info.kind = "info"
                     THEN DictSet(acc.map, person_info.info) ELSE acc.map
         IN  collect_results([map |-> map1, count |-> acc.count + 1],
                             SubSeq(batch_results, 2, Len(batch_results)))

collect_future(acc, fut) ==
    IF fut.state = "raised" THEN acc        \* future.result() raises: logged
    ELSE collect_results(acc, fut.results)

\* lines 319-335 with the try around the whole loop: a raising future ends it
RECURSIVE collect_futures_stop_at_raise(_, _, _)
collect_futures_stop_at_raise(acc, completed, futs) ==
    IF completed = <<>> THEN acc
    ELSE IF futs[completed[1]].state = "raised" THEN acc
    ELSE collect_futures_stop_at_raise(collect_future(acc, futs[completed[1]]),
                                       SubSeq(completed, 2, Len(completed)), futs)

\* lines 319-335: the completed futures, in the order they were submitted
RECURSIVE collect_futures(_, _, _)
collect_futures(acc, completed, futs) ==
    IF completed = <<>> THEN acc
    ELSE collect_futures(collect_future(acc, futs[completed[1]]),
                         SubSeq(completed, 2, Len(completed)), futs)

\* the comparison of line 304 made strict
batch_full_strict(batch, size) == Len(batch) > size

\* line 304: the batch is submitted once it holds batch_size records
batch_full(batch, size) == Len(batch) >= size

\* lines 399-405 without the type branch (404-405)
RECURSIVE collect_deletion_tasks_status_only(_)
collect_deletion_tasks_status_only(map) ==
    IF map = <<>> THEN <<>>
    ELSE LET info == map[1]
             status == IF ~Falsy(info.membership_status_tag_id)
                       THEN <<<<info.uuid, info.membership_status_tag_id, "status">>>>
                       ELSE <<>>
         IN  status \o collect_deletion_tasks_status_only(SubSeq(map, 2, Len(map)))

\* deletion tasks for the entries the report shows only
RECURSIVE collect_deletion_tasks_reported_only(_)
collect_deletion_tasks_reported_only(map) ==
    IF map = <<>> THEN <<>>
    ELSE LET info == map[1]
             status == IF ~Falsy(info.membership_status_tag_id) /\ ~info.inactive
                       THEN <<<<info.uuid, info.membership_status_tag_id, "status">>>>
                       ELSE <<>>
             type == IF ~Falsy(info.membership_type_tag_id) /\ ~info.inactive
                     THEN <<<<info.uuid, info.membership_type_tag_id, "type">>>>
                     ELSE <<>>
         IN  status \o type \o collect_deletion_tasks_reported_only(SubSeq(map, 2, Len(map)))

\* lines 399-405 of delete_outdated_tags
RECURSIVE collect_deletion_tasks(_)
collect_deletion_tasks(map) ==
    IF map = <<>> THEN <<>>
    ELSE LET info == map[1]
             status == IF ~Falsy(info.membership_status_tag_id)
                       THEN <<<<info.uuid, info.membership_status_tag_id, "status">>>>
                       ELSE <<>>
             type == IF ~Falsy(info.membership_type_tag_id)
                     THEN <<<<info.uuid, info.membership_type_tag_id, "type">>>>
                     ELSE <<>>
         IN  status \o type \o collect_deletion_tasks(SubSeq(map, 2, Len(map)))

\* the header with membership_status left in
ReportColumnsWithStatus ==
    <<"uuid", "unit_name", "membership_status", "membership_type">>

\* dict_to_csv: the lines of the CSV text (a line is its cells), row count
ReportColumns == <<"uuid", "unit_name", "membership_type">>

ReportRow(info) == <<info.uuid, info.unit_name, info.membership_type>>

\* dict_to_csv without the filter of line 93
dict_to_csv_keeping_inactive(map) ==
    LET filtered_rows == [i \in 1..Len(map) |-> ReportRow(map[i])]
    IN  IF map = <<>> THEN NoReport
        ELSE [content |-> <<ReportColumns>> \o filtered_rows,
              row_count |-> Len(filtered_rows)]

\* dict_to_csv without the test of lines 98-99
dict_to_csv_header_only(map) ==
    LET active_rows == SelectSeq(map, LAMBDA info : ~info.inactive)
        filtered_rows == [i \in 1..Len(active_rows) |-> ReportRow(active_rows[i])]
    IN  IF map = <<>> THEN NoReport
        ELSE [content |-> <<ReportColumns>> \o filtered_rows,
              row_count |-> Len(filtered_rows)]

dict_to_csv(map) ==
    LET active_rows == SelectSeq(map, LAMBDA info : ~info.inactive)
        filtered_rows == [i \in 1..Len(active_rows) |-> ReportRow(active_rows[i])]
    IN  IF map = <<>> THEN NoReport
        ELSE IF filtered_rows = <<>> THEN NoReport
        ELSE [content |-> <<ReportColumns>> \o filtered_rows,
              row_count |-> Len(filtered_rows)]

-----------------------------------------------------------------------------
(* Spec: one run of main *)

Init ==
    /\ pc = "start"
    /\ scheduled \in BOOLEAN
    /\ today \in Days
    /\ max_workers \in WorkerCounts
    /\ batch_size \in BatchSizes
    /\ source \in UNION {[1..n -> StreamKinds] : n \in 0..MaxPeople}
    \* the scheduled run of the first of the month sees every stream; the
    \* other calls see the streams of at most one person
    /\ (scheduled /\ today = 1) \/ Len(source) <= 1
    /\ person_index = 0 /\ current_batch = <<>> /\ batch_index = 0
    /\ futures = <<>> /\ future_to_batch_info = <<>> /\ waited = {}
    /\ active_calls = {}
    /\ people_unit_map = <<>> /\ processed_count = 0
    /\ deletion_tasks = <<>> /\ del_futures = <<>> /\ del_waited = {}
    /\ successful_deletions = 0 /\ delete_log = {}
    /\ report = NoReport /\ emails = <<>>
    /\ ResolveIdle /\ DeleteIdle /\ LibraryIdle

build_vars == <<person_index, current_batch, batch_index, futures,
                future_to_batch_info, waited, active_calls, people_unit_map,
                processed_count>>
apply_vars == <<deletion_tasks, del_futures, del_waited, successful_deletions,
                delete_log>>
param_vars == <<scheduled, today, max_workers, batch_size, source>>

\* the gate closing on every day but the first, scheduled or not
MainGate_ignoring_scheduled ==
    /\ pc = "start"
    /\ pc' = IF ~run_today(1, today) THEN "skipped" ELSE "stream"
    /\ UNCHANGED <<param_vars, build_vars, apply_vars, report, emails,
                   resolve_vars, delete_vars, library_vars>>

\* main, line 460: the schedule gate
MainGate ==
    /\ pc = "start"
    /\ pc' = IF ~run_today(1, today) /\ scheduled THEN "skipped" ELSE "stream"
    /\ UNCHANGED <<param_vars, build_vars, apply_vars, report, emails,
                   resolve_vars, delete_vars, library_vars>>

\* build_people_unit_map, lines 299-335: one turn of the for loop
MainDraw ==
    /\ pc = "stream"
    /\ person_index < Len(source)
    /\ LET person == PersonAt(source, person_index + 1)
           appended == Append(current_batch, <<person_index, person>>)
           full == batch_full(appended, batch_size)
           futs == IF full THEN Append(futures, NewFuture(appended)) ELSE futures
           tracked == IF full THEN Append(future_to_batch_info, Len(futs))
                      ELSE future_to_batch_info
           completed_futures == SelectSeq(tracked, LAMBDA f : future_done(futs[f]))
           acc == collect_futures([map |-> people_unit_map, count |-> processed_count],
                                  completed_futures, futs)
       IN  /\ person_index' = person_index + 1
           /\ current_batch' = IF full THEN <<>> ELSE appended
           /\ batch_index' = IF full THEN batch_index + 1 ELSE batch_index
           /\ futures' = futs
           /\ future_to_batch_info' =
                  SelectSeq(tracked, LAMBDA f : ~future_done(futs[f]))
           /\ people_unit_map' = acc.map
           /\ processed_count' = acc.count
    /\ UNCHANGED <<pc, param_vars, waited, active_calls, apply_vars, report,
                   emails, resolve_vars, delete_vars, library_vars>>

\* lines 337-343: the generator is exhausted; submit the partial batch
MainExhausted ==
    /\ pc = "stream"
    /\ person_index = Len(source)
    /\ IF current_batch # <<>>
       THEN /\ futures' = Append(futures, NewFuture(current_batch))
            /\ future_to_batch_info' = Append(future_to_batch_info, Len(futures) + 1)
       ELSE UNCHANGED <<futures, future_to_batch_info>>
    /\ pc' = "wait"
    /\ UNCHANGED <<param_vars, person_index, current_batch, batch_index, waited,
                   active_calls, people_unit_map, processed_count, apply_vars,
                   report, emails, resolve_vars, delete_vars, library_vars>>

\* lines 346-362: as_completed yields one more completed future
MainCollect(f) ==
    /\ pc = "wait"
    /\ \E i \in 1..Len(future_to_batch_info) : future_to_batch_info[i] = f
    /\ f \notin waited
    /\ future_done(futures[f])
    /\ LET acc == collect_future([map |-> people_unit_map, count |-> processed_count],
                                 futures[f])
       IN  /\ people_unit_map' = acc.map
           /\ processed_count' = acc.count
    /\ waited' = waited \cup {f}
    /\ UNCHANGED <<pc, param_vars, person_index, current_batch, batch_index,
                   futures, future_to_batch_info, active_calls, apply_vars,
                   report, emails, resolve_vars, delete_vars, library_vars>>

\* a worker thread of the resolver's executor takes the next batch and
\* enters process_person for its first record
WorkerStart(f) ==
    /\ pc \in {"stream", "wait"}
    /\ f \in 1..Len(futures)
    /\ worker_may_start(futures, f, max_workers)
    /\ futures' = [futures EXCEPT ![f].state = "running"]
    /\ active_calls' = active_calls \cup {futures[f].batch[1][1]}
    /\ UNCHANGED <<pc, param_vars, person_index, current_batch, batch_index,
                   future_to_batch_info, waited, people_unit_map,
                   processed_count, apply_vars, report, emails, resolve_vars,
                   delete_vars, library_vars>>

\* a worker storing its PersonUnitInfo in the map itself
WorkerStep_writing_map(f) ==
    /\ pc \in {"stream", "wait"}
    /\ f \in 1..Len(futures)
    /\ futures[f].state = "running"
    /\ LET fut == process_people_batch_step(futures[f], source)
           finished == futures[f].batch[futures[f].pos + 1][1]
           person_info == IF fut.state = "raised" THEN ReturnNone
                          ELSE fut.results[Len(fut.results)][2]
       IN  /\ futures' = [futures EXCEPT ![f] = fut]
           /\ active_calls' =
                  (active_calls \ {finished}) \cup
                  (IF fut.state = "running" THEN {fut.batch[fut.pos + 1][1]} ELSE {})
           /\ people_unit_map' = IF person_info.kind = "info"
                                 THEN DictSet(people_unit_map, person_info.info)
                                 ELSE people_unit_map
    /\ UNCHANGED <<pc, param_vars, person_index, current_batch, batch_index,
                   future_to_batch_info, waited,
                   processed_count, apply_vars, report, emails, resolve_vars,
                   delete_vars, library_vars>>

\* process_people_batch: the current process_person call returns and the
\* loop enters the next one, or the batch ends
WorkerStep(f) ==
    /\ pc \in {"stream", "wait"}
    /\ f \in 1..Len(futures)
    /\ futures[f].state = "running"
    /\ LET fut == process_people_batch_step(futures[f], source)
           finished == futures[f].batch[futures[f].pos + 1][1]
       IN  /\ futures' = [futures EXCEPT ![f] = fut]
           /\ active_calls' =
                  (active_calls \ {finished}) \cup
                  (IF fut.state = "running" THEN {fut.batch[fut.pos + 1][1]} ELSE {})
    /\ UNCHANGED <<pc, param_vars, person_index, current_batch, batch_index,
                   future_to_batch_info, waited, people_unit_map,
                   processed_count, apply_vars, report, emails, resolve_vars,
                   delete_vars, library_vars>>

\* the locals of build_people_unit_map, the people generator among them,
\* once it has returned
BuildReturned ==
    /\ source' = <<>>
    /\ person_index' = 0 /\ current_batch' = <<>> /\ batch_index' = 0
    /\ futures' = <<>> /\ future_to_batch_info' = <<>> /\ waited' = {}
    /\ active_calls' = {} /\ processed_count' = 0

\* build_people_unit_map returns (364-365); main, lines 469-473; then
\* delete_outdated_tags up to the submission of every task (399-425)
MainBuilt ==
    /\ pc = "wait"
    /\ \A i \in 1..Len(future_to_batch_info) : future_to_batch_info[i] \in waited
    /\ \A f \in 1..Len(futures) : future_done(futures[f])
    /\ LET tasks == collect_deletion_tasks(people_unit_map)
       IN  IF people_unit_map = <<>>
           THEN /\ pc' = "done"
                /\ UNCHANGED <<deletion_tasks, del_futures>>
           ELSE /\ deletion_tasks' = tasks
                /\ del_futures' = [t \in 1..Len(tasks) |->
                                      [state |-> "pending", result |-> FALSE]]
                /\ pc' = IF tasks = <<>> THEN "report" ELSE "deleting"
    /\ BuildReturned
    /\ UNCHANGED <<scheduled, today, max_workers, batch_size, people_unit_map, del_waited, successful_deletions,
                   delete_log, report, emails, resolve_vars, delete_vars, library_vars>>

\* A worker thread of the deletion executor runs delete_tag_for_person for
\* task t, from its call to its return, and as_completed hands the finished
\* future to the coordinating thread, which counts it (lines 428-435).
\* Nothing else reads the future between the two, so they are one step.
\* The pool starts the tasks in submission order on max_workers threads, so
\* the tasks that can be the next to return are the first max_workers
\* unfinished ones.
DeleteRun(t) ==
    /\ pc = "deleting"
    /\ t \in 1..Len(del_futures)
    /\ deletion_may_run(del_futures, t, max_workers)
    /\ \E script \in DeleteScripts :
          LET success == delete_tag_for_person(script)
          IN  /\ del_futures' = [del_futures EXCEPT
                                    ![t] = [state |-> "done", result |-> success]]
              /\ successful_deletions' =
                    IF success THEN successful_deletions + 1
                    ELSE successful_deletions
    /\ del_waited' = del_waited \cup {t}
    /\ delete_log' = delete_log \cup {<<deletion_tasks[t][1], deletion_tasks[t][2]>>}
    /\ UNCHANGED <<pc, param_vars, build_vars, deletion_tasks, report, emails,
                   resolve_vars, delete_vars, library_vars>>

\* delete_outdated_tags returning without waiting for its futures
MainDeleted_not_waiting ==
    /\ pc = "deleting"
    /\ pc' = "report"
    /\ del_futures' = <<>>
    /\ del_waited' = {}
    /\ UNCHANGED <<param_vars, build_vars, deletion_tasks, successful_deletions,
                   delete_log, report, emails, resolve_vars, delete_vars, library_vars>>

\* delete_outdated_tags returns (437-439), its executor and futures with
\* it; main, line 477
MainDeleted ==
    /\ pc = "deleting"
    /\ del_waited = 1..Len(del_futures)
    /\ pc' = "report"
    /\ del_futures' = <<>>
    /\ del_waited' = {}
    /\ UNCHANGED <<param_vars, build_vars, deletion_tasks, successful_deletions,
                   delete_log, report, emails, resolve_vars, delete_vars, library_vars>>

\* main, lines 480-491: render the report and send it
MainReport ==
    /\ pc = "report"
    /\ LET csv == dict_to_csv(people_unit_map)
       IN  /\ report' = csv
           /\ \E smtp \in SmtpScripts :
                 IF retry_email(smtp).end = "raise"
                 THEN /\ pc' = "raised"
                      /\ UNCHANGED emails
                 ELSE /\ pc' = "done"
                      /\ emails' = Append(emails,
                            [subject |-> IF csv.content # <<>> THEN "rows attached"
                                         ELSE "no entries synced",
                             row_count |-> csv.row_count,
                             csv_content |-> csv.content])
    /\ UNCHANGED <<param_vars, build_vars, apply_vars, resolve_vars, delete_vars, library_vars>>

Next ==
    \/ MainGate
    \/ MainDraw
    \/ MainExhausted
    \/ \E f \in 1..(MaxPeople + 1) : MainCollect(f)
    \/ \E f \in 1..(MaxPeople + 1) : WorkerStart(f)
    \/ \E f \in 1..(MaxPeople + 1) : WorkerStep(f)
    \/ MainBuilt
    \/ \E t \in 1..(2 * (MaxPeople + 1)) : DeleteRun(t)
    \/ MainDeleted
    \/ MainReport

Spec == Init /\ [][Next]_vars

\* a worker thread is inside a process_person call of batch f: the state
\* in which WorkerStep(f) can be taken, and it always changes futures[f]
InProcessPerson(f) ==
    /\ pc \in {"stream", "wait"}
    /\ f \in 1..Len(futures)
    /\ futures[f].state = "running"

\* The threads of build_people_unit_map keep running: the coordinating
\* thread takes its next step whenever it has one (the for loop over the
\* generator, the final submit, as_completed, the return), for every
\* submitted batch the pool eventually gives it a thread, and every
\* process_person call made on that thread returns. The last condition is
\* weak fairness of WorkerStep(f), written with its enabling condition.
FairBuild ==
    /\ WF_vars(MainGate \/ MainDraw \/ MainExhausted \/ MainBuilt)
    /\ \A f \in 1..(MaxPeople + 1) :
          /\ WF_vars(MainCollect(f))
          /\ WF_vars(WorkerStart(f))
          /\ ([]<>~InProcessPerson(f) \/ []<><<WorkerStep(f)>>_vars)

SpecFair == Init /\ [][Next]_vars /\ FairBuild

-----------------------------------------------------------------------------
(* SpecRetry: one call of a function wrapped by retry_request or by         *)
(* retry_email, whatever its successive calls do                           *)

MaxAttempts == 3

Outcomes == {"truthy", "falsy", "exc", "other"}

\* values of the backoff argument
Backoffs == {1, 2}

\* retry_request(max_attempts, backoff, retry_if_false=...) calls, and
\* retry_email() calls with its defaults
RetryCalls ==
    {[outs |-> o, max_attempts |-> m, backoff |-> b, retry_if_false |-> f,
      decorator |-> "retry_request"] :
        m \in 1..MaxAttempts, o \in UNION {[1..n -> Outcomes] : n \in 1..MaxAttempts},
        b \in Backoffs, f \in BOOLEAN}
    \cup {[outs |-> o, max_attempts |-> email_max_attempts, backoff |-> 1,
           retry_if_false |-> FALSE, decorator |-> "retry_email"] :
             o \in [1..email_max_attempts -> Outcomes]}

InitRetry ==
    /\ retry_call \in {c \in RetryCalls : Len(c.outs) = c.max_attempts}
    /\ retry_result = NotCalled
    /\ rtpc = "call"
    /\ ResolveIdle /\ DeleteIdle /\ MainIdle /\ PagesIdle /\ CsvIdle

\* the wrapper runs from its call to its return or raise
RetryWrapper ==
    /\ rtpc = "call"
    /\ retry_result' =
          IF retry_call.decorator = "retry_request"
          THEN retry_request(retry_call.outs, retry_call.max_attempts,
                             retry_call.backoff, retry_call.retry_if_false)
          ELSE LET r == retry_email(retry_call.outs)
               IN  [calls |-> r.calls, end |-> r.end, sleeps |-> <<>>]
    /\ rtpc' = "returned"
    /\ UNCHANGED <<retry_call, resolve_vars, delete_vars, main_vars,
                   pages_vars, csv_vars>>

NextRetry == RetryWrapper

SpecRetry == InitRetry /\ [][NextRetry]_vars

-----------------------------------------------------------------------------
(* SpecCsv: one call of dict_to_csv on any correction map *)

MaxEntries == 2

\* the PersonUnitInfo values the k-th entry of a map can hold
CsvEntries(k) ==
    {[uuid |-> <<"p1", "p2", "p3", "p4">>[k],
      unit_name |-> u,
      membership_status_tag_id |-> <<"s1", "s2", "s3", "s4">>[k],
      membership_type_tag_id |-> <<"t1", "t2", "t3", "t4">>[k],
      membership_status |-> st,
      membership_type |-> ty,
      inactive |-> i] :
        u \in {"Unit A", UnknownUnit}, st \in {"Active", "Inactive"},
        ty \in {"Full", "Non-Member", ""}, i \in BOOLEAN}

InitCsv ==
    /\ \E n \in 0..MaxEntries :
          \E m \in [1..n -> UNION {CsvEntries(k) : k \in 1..n}] :
             /\ \A k \in 1..n : m[k] \in CsvEntries(k)
             /\ csv_data = m
    /\ csv_result = NoReport
    /\ cpc = "call"
    /\ ResolveIdle /\ DeleteIdle /\ MainIdle /\ RetryIdle /\ PagesIdle

DictToCsv ==
    /\ cpc = "call"
    /\ csv_result' = dict_to_csv(csv_data)
    /\ cpc' = "returned"
    /\ UNCHANGED <<csv_data, resolve_vars, delete_vars, main_vars,
                   retry_vars, pages_vars>>

NextCsv == DictToCsv

SpecCsv == InitCsv /\ [][NextCsv]_vars

-----------------------------------------------------------------------------
(* SpecPages: one consumption of a paginated fetcher.  The loops of        *)
(* search_people_modified_by, get_tags_paginated and                       *)
(* get_campaigns_paginated are the same statement for statement.           *)

MaxPages == 3

\* the items the remote holds on page p
PageItems(p, n) == [k \in 1..n |-> <<p, k>>]

\* total_pages as the remote reports it: absent, 1, 2, or more than any page
TotalPagesValues ==
    {[has_total |-> FALSE, total_pages |-> 0],
     [has_total |-> TRUE, total_pages |-> 1],
     [has_total |-> TRUE, total_pages |-> 2],
     [has_total |-> TRUE, total_pages |-> MaxPages + 1]}

\* what the remote answers for one page: the outcome of each GET, the number
\* of items, total_pages
PageShapes ==
    {[attempts |-> a, n |-> n, has_total |-> t.has_total, total_pages |-> t.total_pages] :
        a \in {OK3, LATE_OK}, n \in 0..1, t \in TotalPagesValues}
    \cup {[attempts |-> ERR3, n |-> 1, has_total |-> TRUE, total_pages |-> MaxPages + 1]}

PageOfShape(sh, p) ==
    [attempts |-> sh.attempts, items |-> PageItems(p, sh.n),
     has_total |-> sh.has_total, total_pages |-> sh.total_pages]

\* _fetch_people_page / _fetch_tag_page / _fetch_campaigns_page with
\* @retry_request() around it
_fetch_people_page_once(answer) == retry_request(answer.attempts, 1, backoff, FALSE)

_fetch_people_page(answer) ==
    retry_request(answer.attempts, max_attempts, backoff, FALSE)

last_page_needs_total(answer, p) == answer.has_total /\ p >= answer.total_pages

last_page_after_total(answer, p) == ~answer.has_total \/ p > answer.total_pages

\* list_people.py 76-78: total_pages is None or page >= total_pages
last_page(answer, p) == ~answer.has_total \/ p >= answer.total_pages

InitPages ==
    /\ \E n \in 0..MaxPages :
          \E shapes \in [1..n -> PageShapes] :
             remote_pages = [p \in 1..n |-> PageOfShape(shapes[p], p)]
    /\ cur_page = 1
    /\ yielded = <<>>
    /\ requested = <<>>
    /\ pgpc = "loop"
    /\ ResolveIdle /\ DeleteIdle /\ MainIdle /\ RetryIdle /\ CsvIdle

\* list_people.py 56-80: one turn of `while True`
FetchPage ==
    /\ pgpc = "loop"
    /\ LET answer == PageAt(remote_pages, cur_page)
           fetched == _fetch_people_page(answer)
       IN  /\ requested' = Append(requested, cur_page)
           /\ IF fetched.end = "raise"
              THEN /\ pgpc' = "ended"
                   /\ UNCHANGED <<yielded, cur_page>>
              ELSE IF answer.items = <<>>
              THEN /\ pgpc' = "ended"
                   /\ UNCHANGED <<yielded, cur_page>>
              ELSE /\ yielded' = yielded \o answer.items
                   /\ IF last_page(answer, cur_page)
                      THEN pgpc' = "ended" /\ UNCHANGED cur_page
                      ELSE pgpc' = "loop" /\ cur_page' = cur_page + 1
    /\ UNCHANGED <<remote_pages, resolve_vars, delete_vars, main_vars,
                   retry_vars, csv_vars>>

NextPages == FetchPage

SpecPages == InitPages /\ [][NextPages]_vars

-----------------------------------------------------------------------------
(* SpecLazy: a paginated fetcher as the generator it is, resumed by its    *)
(* consumer one item at a time; the consumer may stop at any item          *)

\* most items on a page
MaxItems == 2

\* page answers with up to MaxItems items
LazyShapes ==
    {[attempts |-> OK3, n |-> n, has_total |-> t.has_total, total_pages |-> t.total_pages] :
        n \in 0..MaxItems,
        t \in {[has_total |-> FALSE, total_pages |-> 0],
               [has_total |-> TRUE, total_pages |-> 2],
               [has_total |-> TRUE, total_pages |-> MaxPages + 1]}}
    \cup {[attempts |-> a, n |-> 1, has_total |-> TRUE, total_pages |-> MaxPages + 1] :
             a \in {ERR3, LATE_OK}}

\* how many items of page p the consumer has received
handed(items, p) == Cardinality({i \in 1..Len(items) : items[i][1] = p})

\* the generator is suspended: not started yet, or at the yield of an item
suspended ==
    \/ pgpc = "loop" /\ requested = <<>>
    \/ pgpc = "yielding" /\ handed(yielded, cur_page) >= 1

InitLazy ==
    /\ \E n \in 0..MaxPages :
          \E shapes \in [1..n -> LazyShapes] :
             remote_pages = [p \in 1..n |-> PageOfShape(shapes[p], p)]
    /\ cur_page = 1
    /\ yielded = <<>>
    /\ requested = <<>>
    /\ pgpc = "loop"
    /\ ResolveIdle /\ DeleteIdle /\ MainIdle /\ RetryIdle /\ CsvIdle

\* list_people.py 56-72: the consumer asked for an item; the page is
\* fetched, and the loop ends on a failure or an empty page
LazyFetch ==
    /\ pgpc = "loop"
    /\ LET answer == PageAt(remote_pages, cur_page)
           fetched == _fetch_people_page(answer)
       IN  /\ requested' = Append(requested, cur_page)
           /\ pgpc' = IF fetched.end = "raise" \/ answer.items = <<>>
                      THEN "ended" ELSE "yielding"
    /\ UNCHANGED <<remote_pages, cur_page, yielded, resolve_vars, delete_vars,
                   main_vars, retry_vars, csv_vars>>

\* line 74, yield from people: the next item of the page goes to the consumer
LazyYield ==
    /\ pgpc = "yielding"
    /\ handed(yielded, cur_page) < Len(PageAt(remote_pages, cur_page).items)
    /\ yielded' = Append(yielded,
                     PageAt(remote_pages, cur_page).items[handed(yielded, cur_page) + 1])
    /\ UNCHANGED <<remote_pages, cur_page, requested, pgpc, resolve_vars,
                   delete_vars, main_vars, retry_vars, csv_vars>>

\* a generator that goes on to the next page once the page's first item is out
LazyAdvance_prefetching ==
    /\ pgpc = "yielding"
    /\ handed(yielded, cur_page) >= 1
    /\ IF last_page(PageAt(remote_pages, cur_page), cur_page)
       THEN pgpc' = "ended" /\ UNCHANGED cur_page
       ELSE pgpc' = "loop" /\ cur_page' = cur_page + 1
    /\ UNCHANGED <<remote_pages, yielded, requested, resolve_vars, delete_vars,
                   main_vars, retry_vars, csv_vars>>

\* lines 76-80: the consumer asked for an item after the last of the page
LazyAdvance ==
    /\ pgpc = "yielding"
    /\ handed(yielded, cur_page) = Len(PageAt(remote_pages, cur_page).items)
    /\ IF last_page(PageAt(remote_pages, cur_page), cur_page)
       THEN pgpc' = "ended" /\ UNCHANGED cur_page
       ELSE pgpc' = "loop" /\ cur_page' = cur_page + 1
    /\ UNCHANGED <<remote_pages, yielded, requested, resolve_vars, delete_vars,
                   main_vars, retry_vars, csv_vars>>

\* the consumer stops iterating: the suspended generator is never resumed
ConsumerStops ==
    /\ suspended
    /\ pgpc' = "closed"
    /\ UNCHANGED <<remote_pages, cur_page, yielded, requested, resolve_vars,
                   delete_vars, main_vars, retry_vars, csv_vars>>

NextLazy == LazyFetch \/ LazyYield \/ LazyAdvance \/ ConsumerStops

SpecLazy == InitLazy /\ [][NextLazy]_vars

-----------------------------------------------------------------------------
(* Claims about the record resolver (SpecResolve) *)

\* index of the last tagging of the list that carries `field` (0: none)
LastOf(taggings, field) ==
    LET idx == {i \in 1..Len(taggings) : taggings[i].field = field}
    IN  IF idx = {} THEN 0 ELSE CHOOSE i \in idx : \A j \in idx : j <= i

\* the value the unit-side connection's taggings give for `field`
UnitSideValue(taggings, field) ==
    IF LastOf(taggings, field) = 0 THEN None
    ELSE taggings[LastOf(taggings, field)].name

\* the value the record's own taggings give for `field` (tag_name or "")
OwnSideValue(taggings, field) ==
    IF LastOf(taggings, field) = 0 THEN None
    ELSE IF Falsy(taggings[LastOf(taggings, field)].name) THEN ""
    ELSE taggings[LastOf(taggings, field)].name

ConnectionsOf(w) == fetch_connections_from_person(get_person(w), w)
UnitTaggingsOf(w) == fetch_taggings_from_connection(ConnectionsOf(w))
OwnTaggingsOf(w) == get_all_tags(w.own_pages)

UnitPair(w) ==
    <<UnitSideValue(UnitTaggingsOf(w).taggings, MembershipStatus),
      UnitSideValue(UnitTaggingsOf(w).taggings, MembershipType)>>
OwnPair(w) ==
    <<OwnSideValue(OwnTaggingsOf(w), MembershipStatus),
      OwnSideValue(OwnTaggingsOf(w), MembershipType)>>

ValidPerson(w) ==
    /\ w.person.is_dict /\ w.person.has_identifiers
    /\ w.person.identifiers # <<>> /\ w.person.identifiers[1] # <<"">>

\* the person, a non-empty connection list and both tagging sets were obtained
Obtained(w) ==
    /\ ValidPerson(w)
    /\ get_person(w).ok
    /\ ConnectionsOf(w) # <<>>
    /\ UnitTaggingsOf(w).found

\* C2: once the person, a non-empty connection list and both tagging sets
\* were obtained, process_person returns a PersonUnitInfo exactly when the
\* unit-side pair (status_value, type_value) differs from the record's own
\* pair (current_status, current_type), and None when the pairs agree.
C2_InfoIffPairsDiffer ==
    (rpc = "returned" /\ Obtained(world)) =>
        (result.kind = "info" <=> UnitPair(world) # OwnPair(world))

\* C2 witness: the pairs agree with the status absent on both sides, and
\* process_person returned None
C2_Witness ==
    /\ rpc = "returned" /\ Obtained(world)
    /\ UnitPair(world) = <<None, "Full">>
    /\ OwnPair(world) = <<None, "Full">>
    /\ result.kind = "None"

\* a remote read made while resolving the record failed after its retries:
\* the person, its connections, the matched connection's taggings or the
\* record's own taggings
ReadFailed(w) ==
    /\ ValidPerson(w)
    /\ \/ ~get_person(w).ok
       \/ get_person(w).ok /\ get_person(w).conn_link /\ follow_failed(w.conn_pages, 1)
       \/ get_person(w).ok /\ ConnectionsOf(w) # <<>> /\ UnitTaggingsOf(w).failed
       \/ get_person(w).ok /\ ConnectionsOf(w) # <<>> /\ UnitTaggingsOf(w).found
            /\ tags_fetch_failed(w.own_pages, 1)

\* C3: a failed remote read makes process_person return None
C3_FailedReadReturnsNone ==
    (rpc = "returned" /\ ReadFailed(world)) => result.kind = "None"

-----------------------------------------------------------------------------
(* Claims about delete_tag_for_person (SpecDelete) *)

AnswerIn(a, codes) == ~a.raised /\ a.status_code \in codes

\* C4: delete_tag_for_person returns True when the request that ends the
\* call is answered 200/204 and also when it is answered 404; it returns
\* False only when every one of the max_attempts requests met a transport
\* error or a status other than 200, 204 and 404.
C4_DeleteSuccessOn404 ==
    dpc = "returned" =>
        /\ (\E k \in 1..max_attempts :
                /\ AnswerIn(answers[k], {200, 204, 404})
                /\ \A j \in 1..(k - 1) :
                      answers[j].raised \/ raise_for_status_raises(answers[j]))
            => del_result = TRUE
        /\ del_result = FALSE =>
                \A k \in 1..max_attempts : ~AnswerIn(answers[k], {200, 204, 404})

\* C4 witness: a 404 after a failed attempt is reported as success
C4_Witness ==
    /\ dpc = "returned"
    /\ answers[1] = TransportError
    /\ answers[2] = Response(404)
    /\ del_result = TRUE
    /\ del_call.calls = 2

-----------------------------------------------------------------------------
(* Claims about the pipeline (Spec) *)

Building == pc \in {"stream", "wait"}

Tracked(f) == \E i \in 1..Len(future_to_batch_info) : future_to_batch_info[i] = f

\* the coordinator has taken the result of future f
Collected(f) == ~Tracked(f) \/ f \in waited

AllCollected == \A f \in 1..Len(futures) : Collected(f)

RECURSIVE SumLen(_, _)
SumLen(futs, keep) ==
    IF keep = {} THEN 0
    ELSE LET f == CHOOSE g \in keep : TRUE
         IN  Len(futs[f].batch) + SumLen(futs, keep \ {f})

\* records drawn from the source whose batch result is not yet collected
InFlight ==
    person_index - SumLen(futures, {f \in 1..Len(futures) : Collected(f)})

RECURSIVE Flatten(_)
Flatten(futs) ==
    IF futs = <<>> THEN <<>>
    ELSE Flatten(SubSeq(futs, 1, Len(futs) - 1)) \o futs[Len(futs)].batch

\* the future whose batch holds the record of index i (0: not submitted)
BatchOf(i) ==
    LET at == {f \in 1..Len(futures) :
                  \E j \in 1..Len(futures[f].batch) : futures[f].batch[j][1] = i}
    IN  IF at = {} THEN 0 ELSE CHOOSE f \in at : TRUE

Terminated == pc \in {"done", "raised"}

\* C1: every run of main that passes the schedule gate completes and has
\* sent exactly one report e-mail
C1_OneEmailPerRun ==
    Terminated => (pc = "done" /\ Len(emails) = 1)

TaskCount(task) ==
    Cardinality({t \in 1..Len(deletion_tasks) : deletion_tasks[t] = task})

Scheduled == pc \in {"deleting", "report", "done", "raised"} /\ people_unit_map # <<>>

\* C5: delete_outdated_tags schedules exactly one deletion for each
\* non-empty membership_status_tag_id and one for each non-empty
\* membership_type_tag_id of the correction map, addressed to the entry's
\* person, and no other deletion; only scheduled deletions are requested
C5_OneDeletionPerTagId ==
    Scheduled =>
        /\ \A i \in 1..Len(people_unit_map) :
              LET e == people_unit_map[i]
              IN  /\ TaskCount(<<e.uuid, e.membership_status_tag_id, "status">>) =
                        (IF Falsy(e.membership_status_tag_id) THEN 0 ELSE 1)
                  /\ TaskCount(<<e.uuid, e.membership_type_tag_id, "type">>) =
                        (IF Falsy(e.membership_type_tag_id) THEN 0 ELSE 1)
        /\ \A t \in 1..Len(deletion_tasks) :
              \E i \in 1..Len(people_unit_map) :
                 LET e == people_unit_map[i]
                 IN  \/ deletion_tasks[t] = <<e.uuid, e.membership_status_tag_id, "status">>
                     \/ deletion_tasks[t] = <<e.uuid, e.membership_type_tag_id, "type">>
        /\ pc = "deleting" => Len(del_futures) = Len(deletion_tasks)
        /\ \A d \in delete_log :
              \E t \in 1..Len(deletion_tasks) :
                 d = <<deletion_tasks[t][1], deletion_tasks[t][2]>>

\* C5 witness: an entry without tag ids beside an entry with a status tag
\* id only: one deletion is scheduled
C5_Witness ==
    /\ pc = "deleting"
    /\ Len(people_unit_map) = 2
    /\ \E i, j \in 1..2 :
          /\ people_unit_map[i].membership_status_tag_id = None
          /\ people_unit_map[i].membership_type_tag_id = None
          /\ people_unit_map[j].membership_status_tag_id # None
          /\ people_unit_map[j].membership_type_tag_id = None
    /\ Len(deletion_tasks) = 1

\* C6: a deletion that fails after its retries does not stop the others:
\* while deletions are outstanding one of them can run whatever the others
\* returned, delete_outdated_tags returns only after every scheduled
\* deletion was requested at least once, and the count of successful
\* deletions never exceeds the number of scheduled deletions
C6_FailedDeletionIsolated ==
    /\ (pc = "deleting" /\ del_waited # 1..Len(del_futures)) =>
            \E t \in 1..Len(del_futures) :
                deletion_may_run(del_futures, t, max_workers)
    /\ pc = "deleting" =>
            /\ successful_deletions
                 = Cardinality({t \in del_waited : del_futures[t].result})
            /\ \A t \in del_waited :
                  <<deletion_tasks[t][1], deletion_tasks[t][2]>> \in delete_log
    /\ pc \in {"report", "done", "raised"} =>
            /\ \A t \in 1..Len(deletion_tasks) :
                  <<deletion_tasks[t][1], deletion_tasks[t][2]>> \in delete_log
            /\ successful_deletions <= Len(deletion_tasks)

\* C6 witness: delete_outdated_tags returned after a deletion failed and a
\* later one succeeded
C6_Witness ==
    /\ pc = "report"
    /\ Len(deletion_tasks) >= 2
    /\ successful_deletions > 0
    /\ successful_deletions < Len(deletion_tasks)

\* what process_person makes of the i-th record of the stream
Resolved(i) == process_person(KindWorld(source[i], i))

\* C7: when build_people_unit_map is about to return, the map holds the
\* PersonUnitInfo of every discrepant record of every batch whose worker
\* did not raise; and while futures are outstanding the run can go on
C7_BatchIsolation ==
    /\ (pc = "wait" /\ AllCollected) =>
          \A i \in 1..Len(source) :
             (/\ Resolved(i).kind = "info"
              /\ BatchOf(i - 1) # 0
              /\ futures[BatchOf(i - 1)].state # "raised")
             => \E k \in 1..Len(people_unit_map) :
                   people_unit_map[k] = Resolved(i).info
    /\ (pc = "wait" /\ ~AllCollected) =>
          \E f \in 1..Len(futures) :
             \/ futures[f].state = "running"
             \/ worker_may_start(futures, f, max_workers)
             \/ (future_done(futures[f]) /\ ~Collected(f))

\* C7 witness: one batch raised, another batch's discrepant record is in
\* the returned map
C7_Witness ==
    /\ pc = "wait" /\ AllCollected
    /\ \E f, g \in 1..Len(futures) :
          /\ futures[f].state = "raised"
          /\ futures[g].state = "done"
          /\ \E j \in 1..Len(futures[g].results) :
                /\ futures[g].results[j][2].kind = "info"
                /\ \E k \in 1..Len(people_unit_map) :
                      people_unit_map[k] = futures[g].results[j][2].info

\* C8: the records drawn from the source and not yet collected never
\* exceed the max_workers batches in execution plus the batch being filled
C8_InFlightBounded ==
    Building => InFlight <= (max_workers + 1) * batch_size

\* C9: the submitted batches, then the batch being filled, are the drawn
\* records in stream order with their stream index; every batch holds
\* batch_size records but the last, submitted at exhaustion, which may hold
\* fewer and is not empty; the results of a batch follow its order
C9_ConsecutiveBatches ==
    Building =>
        /\ Flatten(futures) \o (IF pc = "stream" THEN current_batch ELSE <<>>)
              = [i \in 1..person_index |-> <<i - 1, PersonAt(source, i)>>]
        /\ pc = "stream" => Len(current_batch) < batch_size
        /\ \A f \in 1..Len(futures) :
              /\ \/ Len(futures[f].batch) = batch_size
                 \/ /\ pc = "wait" /\ f = Len(futures)
                    /\ Len(futures[f].batch) > 0
                    /\ Len(futures[f].batch) < batch_size
              /\ futures[f].state = "done" =>
                    Len(futures[f].results) = Len(futures[f].batch)
              /\ \A j \in 1..Len(futures[f].results) :
                    futures[f].results[j][1] = futures[f].batch[j][1]

\* C9 witness: three records in batches of two: a full batch and a last
\* batch of one, both resolved
C9_Witness ==
    /\ pc = "wait"
    /\ batch_size = 2
    /\ Len(futures) = 2
    /\ Len(futures[1].batch) = 2
    /\ Len(futures[2].batch) = 1
    /\ futures[1].state = "done" /\ futures[2].state = "done"

\* C10: at most max_workers batches are in execution, and inside a batch
\* one process_person call runs at a time, on the record after those
\* already resolved: two calls run together only in different batches
C10_BoundedWorkersSequentialBatch ==
    Building =>
        /\ running_count(futures) <= max_workers
        /\ \A i, j \in active_calls : i # j => BatchOf(i) # BatchOf(j)
        /\ \A i \in active_calls :
              /\ BatchOf(i) # 0
              /\ futures[BatchOf(i)].state = "running"
              /\ futures[BatchOf(i)].batch[futures[BatchOf(i)].pos + 1][1] = i
        /\ \A f \in 1..Len(futures) :
              futures[f].state = "running" =>
                 futures[f].batch[futures[f].pos + 1][1] \in active_calls

\* C10 witness: two batches in execution at once, one of them on its
\* second record
C10_Witness ==
    /\ Building
    /\ max_workers = 2 /\ batch_size = 2
    /\ running_count(futures) = 2
    /\ Cardinality(active_calls) = 2
    /\ \E f \in 1..Len(futures) :
          futures[f].state = "running" /\ futures[f].pos = 1

-----------------------------------------------------------------------------
(* Claims about the paginated fetchers (SpecPages) *)

Min(a, b) == IF a <= b THEN a ELSE b

\* every GET of page p raises
Fails(p) ==
    \A k \in 1..max_attempts : PageAt(remote_pages, p).attempts[k] = "exc"

ItemsOf(p) == PageAt(remote_pages, p).items

RECURSIVE ConcatPages(_)
ConcatPages(n) == IF n <= 0 THEN <<>> ELSE ConcatPages(n - 1) \o ItemsOf(n)

\* the first page whose item list is empty
FirstEmpty ==
    CHOOSE n \in 1..(Len(remote_pages) + 1) :
        ItemsOf(n) = <<>> /\ \A m \in 1..(n - 1) : ItemsOf(m) # <<>>

\* page p reports no total_pages, or a total_pages that p has reached
TotalReached(p) ==
    LET answer == PageAt(remote_pages, p)
    IN  ~answer.has_total \/ answer.total_pages <= p

FirstTotalReached ==
    CHOOSE n \in 1..(Len(remote_pages) + 1) :
        TotalReached(n) /\ \A m \in 1..(n - 1) : ~TotalReached(m)

NoFetchFailure == \A p \in 1..Len(remote_pages) : ~Fails(p)

\* C11 as stated: without fetch failure the fetcher yields the items of
\* pages 1..N-1, N the first page with an empty item list, whatever
\* total_pages says
C11_YieldsUpToFirstEmptyPage ==
    (pgpc = "ended" /\ NoFetchFailure) => yielded = ConcatPages(FirstEmpty - 1)

\* C11 amended: without fetch failure the fetcher yields the items of pages
\* 1..min(N-1, P), N the first page with an empty item list and P the first
\* page that reports no total_pages or a total_pages <= P; a total_pages
\* that overstates never makes it yield more
C11_YieldsUpToEmptyOrTotal ==
    (pgpc = "ended" /\ NoFetchFailure) =>
        yielded = ConcatPages(Min(FirstEmpty - 1, FirstTotalReached))

\* C11 witness: every page overstates total_pages and the sequence ends at
\* the empty third page, after the items of pages 1 and 2
C11_Witness ==
    /\ pgpc = "ended" /\ NoFetchFailure
    /\ FirstEmpty = 3
    /\ FirstTotalReached > 3
    /\ yielded = ItemsOf(1) \o ItemsOf(2)
    /\ requested = <<1, 2, 3>>

\* C12: the pages are requested in order from 1, and once page p was
\* fetched, was not empty and reports no total_pages or total_pages <= p,
\* page p+1 is never requested and the yielded items end with page p's
C12_NoRequestBeyondTotal ==
    /\ requested = [i \in 1..Len(requested) |-> i]
    /\ \A i \in 1..Len(requested) :
          (/\ ~Fails(i) /\ ItemsOf(i) # <<>> /\ TotalReached(i)
           /\ (i < Len(requested) \/ pgpc = "ended"))
          => /\ Len(requested) = i
             /\ pgpc = "ended"
             /\ yielded = ConcatPages(i)

\* C12 witness: total_pages = 2 on page 2, the remote holds a non-empty
\* page 3, and the sequence ended after the request of page 2
C12_Witness ==
    /\ pgpc = "ended"
    /\ Len(remote_pages) = 3
    /\ ItemsOf(3) # <<>> /\ ~Fails(3)
    /\ remote_pages[2].has_total /\ remote_pages[2].total_pages = 2
    /\ requested = <<1, 2>>
    /\ yielded = ItemsOf(1) \o ItemsOf(2)

\* the loop gets as far as requesting page k
Reaches(k) ==
    \A j \in 1..(k - 1) : ~Fails(j) /\ ItemsOf(j) # <<>> /\ ~TotalReached(j)

\* C13: when every attempt to fetch page k fails, the sequence ends there
\* without raising and what was yielded is the items of pages 1..k-1
C13_FailureEndsSequence ==
    /\ pgpc \in {"loop", "ended"}
    /\ \A k \in 1..Len(remote_pages) :
          (Fails(k) /\ Reaches(k)) =>
              /\ Len(requested) <= k
              /\ pgpc = "ended" <=> Len(requested) = k
              /\ pgpc = "ended" => /\ requested = [i \in 1..k |-> i]
                                   /\ yielded = ConcatPages(k - 1)

\* C13 witness: page 2 fails on every attempt after a page 1 that needed a
\* retry; only page 1's items were yielded
C13_Witness ==
    /\ pgpc = "ended"
    /\ Len(remote_pages) >= 2
    /\ remote_pages[1].attempts = LATE_OK
    /\ Fails(2) /\ Reaches(2)
    /\ yielded = ItemsOf(1) /\ yielded # <<>>

-----------------------------------------------------------------------------
(* Claims about retry_request and retry_email (SpecRetry) *)

Returned == rtpc = "returned"

\* every call of the wrapped function does `what`
Always(what) == \A k \in 1..Len(retry_call.outs) : retry_call.outs[k] = what

\* C14: a wrapped operation that raises a retryable error on every call is
\* called exactly max_attempts times and the error is re-raised; with
\* retry_if_false one that returns False/None on every call is called
\* exactly max_attempts times and that result is returned
C14_RetryCeiling ==
    Returned =>
        /\ retry_result.calls <= retry_call.max_attempts
        /\ Always("exc") =>
              /\ retry_result.calls = retry_call.max_attempts
              /\ retry_result.end = "raise"
        /\ (retry_call.retry_if_false /\ Always("falsy")) =>
              /\ retry_result.calls = retry_call.max_attempts
              /\ retry_result.end = "return"

\* C14 witness: send_email's wrapper gives up after three failing calls
C14_Witness ==
    /\ Returned
    /\ retry_call.decorator = "retry_email"
    /\ Always("exc")
    /\ retry_result.calls = 3
    /\ retry_result.end = "raise"

\* C15: retry_request sleeps backoff * 2^(k-1) seconds after failed attempt
\* k and before attempt k+1, and at no other time: one sleep fewer than
\* calls, so max_attempts - 1 sleeps when every call fails
C15_BackoffSchedule ==
    (Returned /\ retry_call.decorator = "retry_request") =>
        /\ retry_result.sleeps =
              [k \in 1..(retry_result.calls - 1) |-> retry_call.backoff * 2 ^ (k - 1)]
        /\ Always("exc") => Len(retry_result.sleeps) = retry_call.max_attempts - 1

\* C15 witness: backoff 2 and three failing calls: sleeps of 2 and 4 seconds
C15_Witness ==
    /\ Returned
    /\ retry_call.decorator = "retry_request"
    /\ retry_call.backoff = 2
    /\ retry_call.max_attempts = 3
    /\ Always("exc")
    /\ retry_result.sleeps = <<2, 4>>

\* the first call that returns a truthy value, every earlier one returning
\* False/None (0: there is none)
FirstTruthyAfterFalsy ==
    LET at == {k \in 1..Len(retry_call.outs) :
                  /\ retry_call.outs[k] = "truthy"
                  /\ \A j \in 1..(k - 1) : retry_call.outs[j] = "falsy"}
    IN  IF at = {} THEN 0 ELSE CHOOSE k \in at : TRUE

\* C16: retry_request retries a False/None result only with retry_if_false:
\* without it the falsy result of the first call is returned after that one
\* call; with it, k-1 falsy results and then a truthy one make exactly k
\* calls and the truthy value is returned
C16_FalsyRetriedOnlyOnRequest ==
    (Returned /\ retry_call.decorator = "retry_request") =>
        /\ (~retry_call.retry_if_false /\ retry_call.outs[1] = "falsy") =>
              /\ retry_result.calls = 1
              /\ retry_result.end = "return"
        /\ (retry_call.retry_if_false /\ FirstTruthyAfterFalsy # 0) =>
              /\ retry_result.calls = FirstTruthyAfterFalsy
              /\ retry_result.end = "return"
              /\ retry_call.outs[retry_result.calls] = "truthy"

\* C16 witness: with retry_if_false, False, False, then a truthy value on
\* the third and last attempt
C16_Witness ==
    /\ Returned
    /\ retry_call.decorator = "retry_request"
    /\ retry_call.retry_if_false
    /\ retry_call.outs = <<"falsy", "falsy", "truthy">>
    /\ retry_result.calls = 3
    /\ retry_result.end = "return"

-----------------------------------------------------------------------------
(* Claims about dict_to_csv (SpecCsv) *)

Rendered == cpc = "returned"

ActiveEntries == {k \in 1..Len(csv_data) : ~csv_data[k].inactive}

\* the lines of the output after the header
DataRows == SubSeq(csv_result.content, 2, Len(csv_result.content))

RowsOf(id) == {r \in 1..Len(DataRows) : DataRows[r][1] = id}

Cells == {csv_result.content[l][c] :
             l \in 1..Len(csv_result.content), c \in 1..3}

\* C17: dict_to_csv renders one data row for each entry whose inactive flag
\* is False and none for the others, the row count is the number of those
\* entries, and the id of an inactive entry is nowhere in the output
C17_OneRowPerActiveEntry ==
    Rendered =>
        /\ csv_result.row_count = Cardinality(ActiveEntries)
        /\ Len(DataRows) = Cardinality(ActiveEntries)
        /\ \A k \in 1..Len(csv_data) :
              IF csv_data[k].inactive
              THEN /\ RowsOf(csv_data[k].uuid) = {}
                   /\ csv_data[k].uuid \notin Cells
              ELSE Cardinality(RowsOf(csv_data[k].uuid)) = 1

\* C17 witness: an active entry followed by an inactive one: one row, for
\* the first
C17_Witness ==
    /\ Rendered
    /\ Len(csv_data) = 2
    /\ ~csv_data[1].inactive /\ csv_data[2].inactive
    /\ csv_result.row_count = 1
    /\ DataRows[1][1] = csv_data[1].uuid

\* C18: a non-empty report has the columns uuid, unit_name, membership_type
\* in that order, in the header and in every row; the tag ids, the
\* membership status and the inactive flag are not columns of it
C18_ReportColumns ==
    (Rendered /\ csv_result.content # <<>>) =>
        /\ csv_result.content[1] = <<"uuid", "unit_name", "membership_type">>
        /\ \A r \in 1..Len(DataRows) :
              \E k \in ActiveEntries :
                 DataRows[r] = <<csv_data[k].uuid, csv_data[k].unit_name,
                                 csv_data[k].membership_type>>
        /\ \A l \in 1..Len(csv_result.content) : Len(csv_result.content[l]) = 3

\* C18 witness: a report of two rows whose entries differ in every excluded
\* field
C18_Witness ==
    /\ Rendered
    /\ Len(DataRows) = 2
    /\ csv_data[1].membership_status # csv_data[2].membership_status
    /\ csv_data[1].membership_type # csv_data[2].membership_type

\* C19: the output is the empty string with row count 0 exactly when the
\* map holds no active entry (it is empty or all inactive); otherwise the
\* string is not empty and the row count is at least 1
C19_EmptyIffNoActiveEntry ==
    Rendered =>
        /\ (ActiveEntries = {}) <=> (csv_result.content = <<>>)
        /\ (ActiveEntries = {}) <=> (csv_result.row_count = 0)
        /\ csv_result.row_count >= 0

\* C19 witness: a map of inactive entries only renders as the empty output
C19_Witness ==
    /\ Rendered
    /\ Len(csv_data) = 2
    /\ csv_data[1].inactive /\ csv_data[2].inactive
    /\ csv_result = [content |-> <<>>, row_count |-> 0]

-----------------------------------------------------------------------------
(* Claims about the inactive flag (SpecResolve) *)

\* C20: every PersonUnitInfo that process_person builds has inactive = True
\* unless the unit-side status_value is "Active"; the record's own status
\* has no part in it
C20_InactiveUnlessUnitActive ==
    (rpc = "returned" /\ result.kind = "info") =>
        (result.info.inactive <=>
            UnitSideValue(UnitTaggingsOf(world).taggings, MembershipStatus) # "Active")

\* C20 witness: the unit side says Inactive / Full, the record itself
\* Active / Full: a PersonUnitInfo with inactive = True
C20_Witness ==
    /\ rpc = "returned" /\ result.kind = "info"
    /\ UnitPair(world) = <<"Inactive", "Full">>
    /\ OwnPair(world) = <<"Active", "Full">>
    /\ result.info.inactive

-----------------------------------------------------------------------------
(* Claims about the tag ids the pipeline deletes (Spec) *)

Range(seq) == {seq[i] : i \in 1..Len(seq)}

\* the ids of the taggings the remote holds for the record itself
OwnTagIdsOf(w) == {tag_id_of(t) : t \in Range(get_all_tags(w.own_pages))}

\* the ids of the taggings attached to the record's unit-side connection
UnitTagIdsOf(w) == {tag_id_of(t) : t \in Range(UnitTaggingsOf(w).taggings)}

\* the remote as it can be for the person whose bare id is uuid
PersonWorlds(uuid) ==
    {KindWorld(kind, k) : kind \in StreamKinds,
                          k \in {n \in 1..(MaxPeople + 1) : PersonIds[n] = uuid}}

OwnIdsOfPerson(uuid) == UNION {OwnTagIdsOf(w) : w \in PersonWorlds(uuid)}
UnitIdsOfPerson(uuid) == UNION {UnitTagIdsOf(w) : w \in PersonWorlds(uuid)}

\* the tag ids of a PersonUnitInfo are ids of the record's own taggings in
\* the remote w (or absent), and none is the id of a unit-side tagging
InfoIdsOwn(info, w) ==
    \A id \in {info.membership_status_tag_id, info.membership_type_tag_id} :
        /\ id \in OwnTagIdsOf(w) \cup {None}
        /\ id \notin UnitTagIdsOf(w)

\* C21: every PersonUnitInfo a worker returned carries only tag ids read
\* from that record's own taggings; so does every entry of the correction
\* map; and every DELETE issued for a person names one of that person's own
\* tagging ids, never the id of a unit-side tagging
C21_DeletesOwnTagIdsOnly ==
    /\ \A f \in 1..Len(futures) : \A j \in 1..Len(futures[f].results) :
          LET r == futures[f].results[j]
          IN  r[2].kind = "info" =>
                 InfoIdsOwn(r[2].info, KindWorld(source[r[1] + 1], r[1] + 1))
    /\ \A i \in 1..Len(people_unit_map) :
          LET e == people_unit_map[i]
          IN  \A id \in {e.membership_status_tag_id, e.membership_type_tag_id} :
                 /\ id \in OwnIdsOfPerson(e.uuid) \cup {None}
                 /\ id \notin UnitIdsOfPerson(e.uuid)
    /\ \A d \in delete_log :
          /\ d[2] \in OwnIdsOfPerson(d[1])
          /\ d[2] \notin UnitIdsOfPerson(d[1])

\* C21 witness: every deletion of a run was issued; among them the two own
\* tag ids of a person whose unit-side taggings carry other ids
C21_Witness ==
    /\ pc = "report"
    /\ \E k \in 1..MaxPeople :
          /\ <<PersonIds[k], "s1">> \in delete_log
          /\ <<PersonIds[k], "t1">> \in delete_log
          /\ UnitIdsOfPerson(PersonIds[k]) = {"us", "ut"}

-----------------------------------------------------------------------------
(* Claims about the order of the phases of main (Spec) *)

\* dict_to_csv has been called on the correction map: MainReport is the
\* only step that ends a run whose map is not empty
ReportRendered == Terminated /\ people_unit_map # <<>>

\* C22: no DELETE is issued before the report has been rendered from the
\* correction map
C22_NoDeleteBeforeReport ==
    delete_log # {} => ReportRendered

\* the phases of a run, in the order of main: resolve (the stream is drawn,
\* then the outstanding batches are awaited), apply corrections, report, end
PhaseRank(p) ==
    CASE p = "start" -> 0
      [] p = "stream" -> 1
      [] p = "wait" -> 2
      [] p = "deleting" -> 3
      [] p = "report" -> 4
      [] OTHER -> 5

\* every scheduled deletion has been requested
AllDeletionsIssued ==
    \A t \in 1..Len(deletion_tasks) :
        <<deletion_tasks[t][1], deletion_tasks[t][2]>> \in delete_log

-----------------------------------------------------------------------------
(* Claims about the unit and its connection (SpecResolve) *)

\* none of the record's connections has type "People + Units"
NoPeopleUnitsConnection(w) ==
    \A i \in 1..Len(ConnectionsOf(w)) :
        ConnectionsOf(w)[i].connection_type # PeopleUnits

\* the GET of the linked unit failed after its retries
UnitFetchFailed(w) == fetch_unit_from_connection(ConnectionsOf(w)).failed

\* the person and a non-empty connection list were obtained
Connected(w) ==
    /\ ValidPerson(w)
    /\ get_person(w).ok
    /\ ConnectionsOf(w) # <<>>

\* C24: with no "People + Units" connection, or with the linked unit not
\* fetched, the record is still compared by the rule of C2, and the
\* PersonUnitInfo of a discrepancy names the unit "Unknown Unit"
C24_PlaceholderUnitStillCompared ==
    (/\ rpc = "returned"
     /\ Connected(world)
     /\ NoPeopleUnitsConnection(world) \/ UnitFetchFailed(world)) =>
        /\ result.kind = "info" <=> UnitPair(world) # OwnPair(world)
        /\ result.kind = "info" => result.info.unit_name = UnknownUnit

\* index of the first connection of type "People + Units" (0: none)
FirstPeopleUnits(connections) ==
    LET idx == {i \in 1..Len(connections) :
                   connections[i].connection_type = PeopleUnits}
    IN  IF idx = {} THEN 0 ELSE CHOOSE i \in idx : \A j \in idx : i <= j

\* C25: when process_person returns a PersonUnitInfo, the unit-side
\* taggings were read from the first "People + Units" connection, and the
\* unit, if one was fetched, is the unit of that same connection
C25_UnitAndTaggingsSameConnection ==
    (rpc = "returned" /\ result.kind = "info") =>
        LET connections == ConnectionsOf(world)
            unit_data == fetch_unit_from_connection(connections)
            taggings == fetch_taggings_from_connection(connections)
        IN  /\ taggings.conn = FirstPeopleUnits(connections)
            /\ unit_data.found => unit_data.conn = taggings.conn

-----------------------------------------------------------------------------
(* Claims about failures inside process_person (SpecResolve) *)

\* C26: whatever the record and whatever fails inside, process_person
\* returns None or a PersonUnitInfo and lets no exception escape
C26_ProcessPersonNeverRaises ==
    rpc = "returned" => result.kind \in {"None", "info"}

-----------------------------------------------------------------------------
(* Claims about the termination of build_people_unit_map (SpecFair) *)

\* the places where the record of stream index i sits: a submitted batch
\* or, while the stream is drawn, the batch being filled (the final submit
\* leaves its records in current_batch)
PlacesOf(i) ==
    {<<f, j>> \in (1..Len(futures)) \X (1..MaxPeople + 1) :
        j <= Len(futures[f].batch) /\ futures[f].batch[j][1] = i}
    \cup {<<0, j>> : j \in {k \in 1..Len(current_batch) :
                                pc = "stream" /\ current_batch[k][1] = i}}

\* the results a worker returned for the record of stream index i
ResultsOf(i) ==
    {<<f, j>> \in (1..Len(futures)) \X (1..MaxPeople + 1) :
        j <= Len(futures[f].results) /\ futures[f].results[j][1] = i}

NoBatchRaised == \A f \in 1..Len(futures) : futures[f].state # "raised"

\* every record yielded is in one batch and has one result when its batch
\* did not raise; the coordinator has counted one result for each record
\* of each batch that did not raise
EachRecordOnce ==
    /\ person_index = Len(source)
    /\ \A i \in 0..(Len(source) - 1) :
          /\ Cardinality(PlacesOf(i)) = 1
          /\ Cardinality(ResultsOf(i)) <= 1
          /\ futures[BatchOf(i)].state = "done" => Cardinality(ResultsOf(i)) = 1
    /\ processed_count =
          SumLen(futures, {f \in 1..Len(futures) : futures[f].state = "done"})
    /\ NoBatchRaised => processed_count = Len(source)

\* build_people_unit_map is about to return: every batch has finished and
\* its result was taken by the coordinator
ReturnPoint ==
    /\ pc = "wait"
    /\ AllCollected
    /\ \A f \in 1..Len(futures) : future_done(futures[f])

-----------------------------------------------------------------------------
(* Claims about delete_tagging (SpecDelete) *)

\* the DELETE requests before the k-th all raised (transport error or a
\* status that raise_for_status rejects), so that a k-th request is made
RaisedBefore(k) ==
    \A j \in 1..(k - 1) : delete_outcome(answers[j]) = "exc"

FailedAnswer(a) == a.raised \/ AnswerIn(a, {401, 500})

\* C29: every DELETE attempt failing with a transport error or an error
\* status such as 401 or 500, delete_tagging issues exactly 3 requests and
\* then returns False without raising
C29_FailureReturnsFalse ==
    (dpc = "returned" /\ \A k \in 1..max_attempts : FailedAnswer(answers[k])) =>
        /\ del_call.calls = 3
        /\ del_call.end = "return"
        /\ del_call.value = "False"

-----------------------------------------------------------------------------
(* Claims about exceptions the wrappers do not retry (SpecRetry) *)

\* the sleeps of the wrapper that ran
SleepCount ==
    IF retry_call.decorator = "retry_email"
    THEN retry_email_sleeps(retry_call.outs)
    ELSE Len(retry_result.sleeps)

\* C30: an exception whose type is not among the wrapper's retryable types
\* propagates at once, in retry_email and in retry_request alike: raised by
\* the first call, the wrapped operation has been called exactly once and
\* the wrapper has not slept; raised by a later call, that call is the last
\* and no sleep follows it
C30_OtherExceptionPropagates ==
    Returned =>
        /\ retry_call.outs[1] = "other" =>
              /\ retry_result.calls = 1
              /\ retry_result.end = "raise"
              /\ SleepCount = 0
        /\ \A k \in 1..retry_result.calls :
              retry_call.outs[k] = "other" =>
                 /\ retry_result.calls = k
                 /\ retry_result.end = "raise"
                 /\ SleepCount = k - 1

\* C30 witness: send_email's wrapper, three attempts allowed, lets the
\* ValueError of the first call through after that one call
C30_Witness ==
    /\ Returned
    /\ retry_call.decorator = "retry_email"
    /\ retry_call.outs = <<"other", "falsy", "falsy">>
    /\ retry_result.calls = 1
    /\ retry_result.end = "raise"
    /\ SleepCount = 0

-----------------------------------------------------------------------------
(* Claims about repeated fields in a taggings list (SpecResolve) *)

\* the tag id the last tagging of `field` gives (None: no such tagging)
LastIdOf(taggings, field) ==
    IF LastOf(taggings, field) = 0 THEN None
    ELSE tag_id_of(taggings[LastOf(taggings, field)])

\* the list without the taggings of other fields
MembershipTaggings(taggings) ==
    SelectSeq(taggings, LAMBDA t : t.field \in {MembershipStatus, MembershipType})

\* some field occurs more than once
Repeats(taggings, field) ==
    Cardinality({i \in 1..Len(taggings) : taggings[i].field = field}) > 1

\* C31: the value and the tag id extracted for "Membership Status" and for
\* "Membership Type" are those of the last tagging of that field in list
\* order, on the connection side and on the person side alike, and taggings
\* of other fields never change the result
C31_LastTaggingWins ==
    (rpc = "returned" /\ Obtained(world)) =>
        LET ut == UnitTaggingsOf(world).taggings
            ot == OwnTaggingsOf(world)
            m == extract_connection_membership_info(ut)
            c == get_person_current_tags(ot)
        IN  /\ m.status_value = UnitSideValue(ut, MembershipStatus)
            /\ m.status_id = LastIdOf(ut, MembershipStatus)
            /\ m.type_value = UnitSideValue(ut, MembershipType)
            /\ m.type_id = LastIdOf(ut, MembershipType)
            /\ c.has_status <=> LastOf(ot, MembershipStatus) # 0
            /\ c.has_type <=> LastOf(ot, MembershipType) # 0
            /\ c.has_status =>
                  /\ c.status.tag_name = OwnSideValue(ot, MembershipStatus)
                  /\ c.status.tag_id = LastIdOf(ot, MembershipStatus)
            /\ c.has_type =>
                  /\ c.type.tag_name = OwnSideValue(ot, MembershipType)
                  /\ c.type.tag_id = LastIdOf(ot, MembershipType)
            /\ m = extract_connection_membership_info(MembershipTaggings(ut))
            /\ c = get_person_current_tags(MembershipTaggings(ot))
            /\ result.kind = "info" =>
                  /\ result.info.membership_status_tag_id = LastIdOf(ot, MembershipStatus)
                  /\ result.info.membership_type_tag_id = LastIdOf(ot, MembershipType)
                  /\ result.info.inactive <=>
                        UnitSideValue(ut, MembershipStatus) # "Active"

\* C31 witness: the connection says Active then Inactive, the record itself
\* Inactive then Active, each with another field's tagging last: the
\* PersonUnitInfo carries the second status of either side
C31_Witness ==
    /\ rpc = "returned" /\ Obtained(world)
    /\ UnitTaggingsOf(world).taggings =
          <<Tag(MembershipStatus, "Active", "us"), Tag(MembershipStatus, "Inactive", "us2"),
            Tag(OtherField, "Steward", "ur")>>
    /\ OwnTaggingsOf(world) =
          <<Tag(MembershipStatus, "Inactive", "s6"), Tag(MembershipStatus, "Active", "s1"),
            Tag(OtherField, "Inactive", "r1")>>
    /\ result.kind = "info"
    /\ result.info.membership_status = "Inactive"
    /\ result.info.membership_status_tag_id = "s1"
    /\ result.info.inactive

-----------------------------------------------------------------------------
(* Claims about the unit-side tag ids (SpecResolve) *)

\* the taggings with their identifiers replaced
WithIds(taggings, ids) == [i \in 1..Len(taggings) |-> [taggings[i] EXCEPT !.identifiers = ids]]

\* the remote of w with every unit-side tagging carrying the identifiers ids
WithUnitIds(w, ids) ==
    [w EXCEPT !.conn_pages =
        [p \in 1..Len(@) |->
            [@[p] EXCEPT !.items =
                [c \in 1..Len(@) |->
                    [@[c] EXCEPT !.tag_pages =
                        [q \in 1..Len(@) |->
                            [@[q] EXCEPT !.items = WithIds(@, ids)]]]]]]]

\* the same record and remote, the unit-side tag ids all missing, all
\* present, or all empty strings
UnitIdVariants(w) ==
    {WithUnitIds(w, <<>>), WithUnitIds(w, << <<"action_builder", "ux">> >>),
     WithUnitIds(w, << <<"">> >>)}

\* the log branch process_person takes for the remote w
LogOf(w) == membership_log(extract_connection_membership_info(UnitTaggingsOf(w).taggings))

\* C32: whether the unit-side tag ids are present or missing never changes
\* the result of process_person: a record whose remote differs only in
\* those ids gets the same outcome
C32_UnitIdsDoNotMatter ==
    rpc = "returned" =>
        \A v \in UnitIdVariants(world) : process_person(v) = result

\* C32 witness: a discrepant record with both unit-side ids present; with
\* the ids missing it falls in the warning branch and is returned all the same
C32_Witness ==
    /\ rpc = "returned" /\ Obtained(world)
    /\ result.kind = "info"
    /\ LogOf(world) = "none"
    /\ LogOf(WithUnitIds(world, <<>>)) = "missing"
    /\ process_person(WithUnitIds(world, <<>>)) = result

\* the report dict_to_csv renders from a map holding only the returned entry
ReportOfResult == dict_to_csv(<<result.info>>)

\* C33: a record for which the unit-side status tag id or type tag id is
\* missing (the warning branch) never appears as a row of the CSV report
C33_MissingIdsNeverReported ==
    (rpc = "returned" /\ Obtained(world) /\ LogOf(world) = "missing"
        /\ result.kind = "info") =>
            ReportOfResult.row_count = 0

-----------------------------------------------------------------------------
(* Claims about the threads of build_people_unit_map (Spec) *)

\* the futures whose record changes in the step
ChangedFutures ==
    {f \in 1..Len(futures) : f <= Len(futures') /\ futures'[f] # futures[f]}

\* a step of the coordinating thread inside build_people_unit_map: a turn of
\* the for loop, or as_completed handing over one more future
CoordinatorCollects ==
    \/ pc = "stream" /\ person_index' = person_index + 1
    \/ pc = "wait" /\ pc' = "wait" /\ waited' # waited

\* C34: the correction map (and the processed count) is written only by the
\* coordinating thread, when it collects completed batches; a step of a
\* worker changes its own future only, as a function of that future and the
\* stream, and leaves the map and every other worker's future alone
C34_OnlyCoordinatorWritesMap ==
    [][ /\ (people_unit_map' # people_unit_map \/ processed_count' # processed_count) =>
              \/ CoordinatorCollects /\ ChangedFutures = {}
              \/ pc = "wait" /\ pc' # "wait" /\ people_unit_map' = people_unit_map
        /\ \A f \in ChangedFutures :
              /\ ChangedFutures = {f}
              /\ people_unit_map' = people_unit_map
              /\ processed_count' = processed_count
              /\ future_to_batch_info' = future_to_batch_info
              /\ current_batch' = current_batch
              /\ \/ futures'[f] = [futures[f] EXCEPT !.state = "running"]
                 \/ futures'[f] = process_people_batch_step(futures[f], source)
      ]_vars

\* C34 witness: two workers run at once while the map already holds an
\* entry the coordinating thread collected
C34_Witness ==
    /\ pc \in {"stream", "wait"}
    /\ running_count(futures) = 2
    /\ people_unit_map # <<>>

-----------------------------------------------------------------------------
(* Claims about the map build_people_unit_map returns (Spec) *)

\* what process_person gives for the record the stream yields at place i
OutcomeAt(i) == process_person(KindWorld(source[i], i))

\* the places of the stream whose record process_person finds discrepant
Discrepant == {i \in 1..Len(source) : OutcomeAt(i).kind = "info"}

\* the batch that holds the record of place i ended without raising
BatchDone(i) == BatchOf(i - 1) # 0 /\ futures[BatchOf(i - 1)].state = "done"

KeysDistinct ==
    \A a, b \in 1..Len(people_unit_map) :
        people_unit_map[a].uuid = people_unit_map[b].uuid => a = b

-----------------------------------------------------------------------------
(* Claims about deletions for entries the report leaves out (Spec) *)

\* the persons a deletion was issued for, and the persons with a report row
DeletedPersons == {d[1] : d \in delete_log}
ReportedPersons == {report.content[r][1] : r \in 2..Len(report.content)}

\* main went through delete_outdated_tags and sent its e-mail
RunCompleted == pc = "done" /\ people_unit_map # <<>>

OnlyInactiveEntries ==
    \A a \in 1..Len(people_unit_map) : people_unit_map[a].inactive

\* C36: the record's own membership tags are deleted for every entry of the
\* correction map, inactive entries included, although only the entries
\* that are not inactive are reported; a run whose map holds only inactive
\* entries deletes their tags and then sends the "no entries synced" e-mail
C36_InactiveEntriesDeletedNotReported ==
    RunCompleted =>
        /\ \A a \in 1..Len(people_unit_map) :
              LET info == people_unit_map[a]
              IN  /\ ~Falsy(info.membership_status_tag_id) =>
                        <<info.uuid, info.membership_status_tag_id>> \in delete_log
                  /\ ~Falsy(info.membership_type_tag_id) =>
                        <<info.uuid, info.membership_type_tag_id>> \in delete_log
                  /\ info.uuid \in ReportedPersons <=> ~info.inactive
        /\ OnlyInactiveEntries =>
              /\ report = NoReport
              /\ Len(emails) = 1
              /\ emails[1].subject = "no entries synced"

\* C36 witness: the map holds inactive entries only; tags were deleted for
\* a person, nobody is reported and the e-mail says no entries synced
C36_Witness ==
    /\ RunCompleted
    /\ OnlyInactiveEntries
    /\ DeletedPersons # {}
    /\ ReportedPersons = {}
    /\ emails[1].subject = "no entries synced"

-----------------------------------------------------------------------------
(* Claims about connections of other types (SpecResolve) *)

IsPeopleUnits(conn) == conn.connection_type = PeopleUnits

\* the connections with those of another type removed
OnlyPeopleUnits(connections) == SelectSeq(connections, IsPeopleUnits)

\* a connection whose unit and taggings requests would fail
Unreachable(conn) ==
    [conn EXCEPT !.unit_attempts = ERR3, !.tag_pages = <<TagPage(ERR3, <<>>)>>]

\* a connection of a type that differs from "People + Units" by its order
Reordered(conn) == [conn EXCEPT !.connection_type = "Units + People"]

\* the connections, those of another type unreachable / renamed
OthersUnreachable(connections) ==
    [c \in 1..Len(connections) |->
        IF IsPeopleUnits(connections[c]) THEN connections[c]
        ELSE Unreachable(connections[c])]
OthersReordered(connections) ==
    [c \in 1..Len(connections) |->
        IF IsPeopleUnits(connections[c]) THEN connections[c]
        ELSE Reordered(connections[c])]

\* the same record and remote without the connections of other types, with
\* them unreachable, and with them renamed to a near-miss of the type
OtherConnectionVariants(w) ==
    {[w EXCEPT !.conn_pages =
         [p \in 1..Len(@) |-> [@[p] EXCEPT !.items = OnlyPeopleUnits(@)]]],
     [w EXCEPT !.conn_pages =
         [p \in 1..Len(@) |-> [@[p] EXCEPT !.items = OthersUnreachable(@)]]],
     [w EXCEPT !.conn_pages =
         [p \in 1..Len(@) |-> [@[p] EXCEPT !.items = OthersReordered(@)]]]}

\* C37: a connection whose type is not exactly "People + Units" never
\* influences resolution: the unit and the taggings are never read from
\* one, both fetches return None when no connection of that type is
\* present, and process_person gives the same result with the other
\* connections removed, unreachable or renamed
C37_OtherConnectionsIgnored ==
    rpc = "returned" =>
        LET connections == ConnectionsOf(world)
            unit == fetch_unit_from_connection(connections)
            taggings == fetch_taggings_from_connection(connections)
        IN  /\ unit.conn # 0 => IsPeopleUnits(connections[unit.conn])
            /\ taggings.conn # 0 => IsPeopleUnits(connections[taggings.conn])
            /\ OnlyPeopleUnits(connections) = <<>> =>
                  /\ ~unit.found /\ unit.conn = 0
                  /\ ~taggings.found /\ taggings.conn = 0
            /\ \A v \in OtherConnectionVariants(world) :
                  /\ process_person(v) = result
                  /\ fetch_unit_from_connection(ConnectionsOf(v)).name = unit.name
                  /\ fetch_taggings_from_connection(ConnectionsOf(v)).taggings
                        = taggings.taggings

\* C37 witness: a connection of another type, with its own unit and an
\* "Active" status tagging, precedes the "People + Units" connection; the
\* PersonUnitInfo names the second connection's unit
C37_Witness ==
    /\ rpc = "returned" /\ Obtained(world)
    /\ Len(ConnectionsOf(world)) = 2
    /\ ~IsPeopleUnits(ConnectionsOf(world)[1])
    /\ ConnectionsOf(world)[1].unit_name = "Unit B"
    /\ fetch_taggings_from_connection(ConnectionsOf(world)).conn = 2
    /\ result.kind = "info"
    /\ result.info.unit_name = "Unit A"
    /\ result.info.inactive

-----------------------------------------------------------------------------
(* Claims about the laziness of the paginated fetchers (SpecLazy) *)

\* the page of the item the consumer received last (0: none)
LastHandedPage == IF yielded = <<>> THEN 0 ELSE yielded[Len(yielded)][1]

\* the items of the page requested last
LastRequestedItems == IF requested = <<>> THEN <<>> ELSE ItemsOf(Len(requested))

\* C38: the pages are requested in the order 1, 2, 3, ... and none twice;
\* page k+1 is requested only after every item of page k has been handed
\* to the consumer; a consumer that stops after an item of page k has
\* caused no request for page k+1
C38_LazyPages ==
    /\ requested = [i \in 1..Len(requested) |-> i]
    /\ \A k \in 1..(Len(requested) - 1) : handed(yielded, k) = Len(ItemsOf(k))
    /\ \E n \in 0..Len(LastRequestedItems) :
          yielded = ConcatPages(Len(requested) - 1) \o SubSeq(LastRequestedItems, 1, n)
    /\ pgpc = "closed" => Len(requested) = LastHandedPage

\* C38 witness: the consumer stopped after the last item of page 1 while
\* the remote holds a second page of items: only page 1 was requested
C38_Witness ==
    /\ pgpc = "closed"
    /\ Len(ItemsOf(1)) = 2 /\ yielded = ItemsOf(1)
    /\ ~last_page(PageAt(remote_pages, 1), 1)
    /\ ItemsOf(2) # <<>>
    /\ requested = <<1>>

-----------------------------------------------------------------------------
(* Claims about the schedule gate (Spec) *)

\* main has passed line 460
PastGate == pc # "start"

\* nothing was fetched, deleted, rendered or sent
NothingDone ==
    /\ person_index = 0 /\ current_batch = <<>> /\ futures = <<>>
    /\ people_unit_map = <<>> /\ processed_count = 0
    /\ deletion_tasks = <<>> /\ delete_log = {} /\ successful_deletions = 0
    /\ report = NoReport /\ emails = <<>>

\* C39: called with scheduled=True on a day that is not the first of the
\* month, main returns at once having fetched nothing, deleted no tag and
\* sent no e-mail; with scheduled=False, or on the first, it enters the
\* pipeline whatever the day
C39_ScheduleGate ==
    PastGate =>
        /\ (scheduled /\ today # 1) => (pc = "skipped" /\ NothingDone)
        /\ (~scheduled \/ today = 1) =>
              pc \in {"stream", "wait", "deleting", "report", "done", "raised"}

\* C39 witness: a scheduled call on the second of the month, with records
\* waiting in the stream, has returned without touching anything
C39_Witness ==
    /\ pc = "skipped"
    /\ scheduled /\ today = 2
    /\ source # <<>>
    /\ NothingDone

====
